---- MODULE Spec2Model ----
(***************************************************************************)
(* Request gateway of the LLM comparison tool: rate limiter, IP filter,    *)
(* CSRF tokens, content filter, API token manager and the /api/chat        *)
(* dispatch handler.  Time is a discrete clock `now`; durations that the   *)
(* program reads from its environment are scaled down to a few ticks.      *)
(***************************************************************************)
EXTENDS Integers, Sequences, FiniteSets, TLC

(* ---------------------------- bounds ----------------------------------- *)
MaxTime == 5
MaxChecks == 5
MaxRequestsCfg == 3

(* ------------------- configuration (scaled program constants) ---------- *)
WindowMs == 2
MaxViolationsBeforeBlock == 2
BlockDurationMs == 2

Identifiers == {"ip1", "ip2"}

VARIABLES
    sText,          \* the text handed to sanitizeLlmResponse
    sOnce,          \* sanitizeLlmResponse(sText)
    sTwice,         \* sanitizeLlmResponse(sanitizeLlmResponse(sText))
    sPc             \* how far the sanitization run has got

VARIABLES
    csrfSecret,     \* CSRF_SECRET
    csrfTok,        \* the signed token string presented for verification
    csrfSrc,        \* observer: how csrfTok came about and from which parts
    csrfPc,         \* "idle", "have" (a token is at hand) or "verified"
    csrfOk          \* verifySignedToken(csrfTok) !== null

VARIABLES
    tokens,         \* APITokenManager.tokens, in insertion order
    issued,         \* observer: the plaintext tokens handed out by generateToken
    ledger,         \* observer: plaintext token -> what was issued and whether revoked
    lastRet         \* what the most recent manager operation returned

VARIABLES
    whitelist,      \* IPFilter.config.whitelist
    blacklist,      \* IPFilter.config.blacklist
    enableDynamicBlocking,  \* IPFilter.config.enableDynamicBlocking
    violations,     \* IPFilter.violations : ip -> count (0 when there is no record)
    dynamicBlocks,  \* IPFilter.dynamicBlocks : ip -> blocked until
    auditLog,       \* AuditLogger.logs
    serverKeys,     \* config.apiKeys : provider id -> server-held key ("" when unset)
    reqs,           \* the requests being handled, one per handler slot
    arrivals,       \* number of requests that have arrived so far
    obsBlock,       \* observer: ip -> end of the block most recently set (-1: never)
    vioCalls        \* observer: ip -> recordViolation calls since its record was made

VARIABLES
    now,            \* Date.now()
    maxRequests,    \* RateLimiter.maxRequests
    store,          \* RateLimiter.store : identifier -> RateLimitEntry
    lastCheck,      \* the most recent check() call and what it returned
    winOpen,        \* observer: time at which the identifier's window was opened
    winCalls,       \* observer: allowed flags of the check() calls of that window
    nChecks         \* number of check() calls made so far

VARIABLES
    gReq,           \* the request handed to validateCsrfToken and validateOrigin
    gOut,           \* what the two checks returned for gReq
    ipRet,          \* the most recent IPFilter.isAllowed call and what it returned
    auditEnabled,   \* AuditLogger.enabled
    recorded        \* observer: every entry AuditLogger.log has stored, in order

rlVars == <<maxRequests, store, lastCheck, winOpen, winCalls, nChecks>>

sanVars == <<sText, sOnce, sTwice, sPc>>

csrfVars == <<csrfSecret, csrfTok, csrfSrc, csrfPc, csrfOk>>

tokVars == <<tokens, issued, ledger, lastRet>>

ipVars == <<whitelist, blacklist, enableDynamicBlocking, violations, dynamicBlocks>>

gwVars == <<ipVars, auditLog, serverKeys, reqs, arrivals, obsBlock, vioCalls>>

guardVars == <<gReq, gOut>>

obsVars == <<guardVars, ipRet, auditEnabled, recorded>>

vars == <<now, rlVars, sanVars, csrfVars, tokVars, gwVars, obsVars>>

\* what the actions of one component leave alone
restRL == <<sanVars, csrfVars, tokVars, gwVars, obsVars>>
restSan == <<now, rlVars, csrfVars, tokVars, gwVars, obsVars>>
restCsrf == <<now, rlVars, sanVars, tokVars, gwVars, obsVars>>
restTok == <<rlVars, sanVars, csrfVars, gwVars, obsVars>>
restGw == <<maxRequests, lastCheck, nChecks, sanVars, csrfVars, tokVars, obsVars>>

\* the observer's account of the rate windows
rlGhost == <<winOpen, winCalls>>
restGuard == <<now, rlVars, sanVars, csrfVars, tokVars, gwVars, ipRet, auditEnabled, recorded>>

(* ------------- parts of the state a specification leaves at rest ------- *)
SanIdle == sText = <<>> /\ sOnce = <<>> /\ sTwice = <<>> /\ sPc = "off"

NoSrc == [kind |-> "none", value |-> <<>>, sig |-> <<>>]

CsrfIdle ==
    /\ csrfSecret = "k1"
    /\ csrfTok = <<>>
    /\ csrfSrc = NoSrc
    /\ csrfPc = "off"
    /\ csrfOk = FALSE

NoRet ==
    [op |-> "none", ok |-> FALSE, token |-> <<>>, recs |-> <<>>, expired |-> FALSE,
     error |-> "", status |-> 0, need |-> {}, live |-> FALSE, granted |-> {},
     known |-> FALSE, same |-> TRUE]

TokIdle == tokens = <<>> /\ issued = {} /\ ledger = <<>> /\ lastRet = NoRet

NoGuardReq == [method |-> "", header |-> <<>>, cookie |-> <<>>, origin |-> "", referer |-> ""]
NoGuardOut == [csrfDone |-> FALSE, originDone |-> FALSE, csrf |-> FALSE, origin |-> FALSE]
NoIpRet == [ip |-> "", allowed |-> FALSE, reason |-> "", listed |-> FALSE, banned |-> FALSE,
            blocked |-> FALSE]

ObsIdle ==
    /\ gReq = NoGuardReq /\ gOut = NoGuardOut /\ ipRet = NoIpRet
    /\ auditEnabled = TRUE /\ recorded = <<>>

GwIdle ==
    /\ whitelist = {}
    /\ blacklist = {}
    /\ enableDynamicBlocking = TRUE
    /\ violations = <<>>
    /\ dynamicBlocks = <<>>
    /\ auditLog = <<>>
    /\ serverKeys = <<>>
    /\ reqs = <<>>
    /\ arrivals = 0
    /\ obsBlock = <<>>
    /\ vioCalls = <<>>

(* ======================= rate-limiter.ts =============================== *)

NoEntry == [has |-> FALSE, count |-> 0, resetTime |-> 0]

\* a limiter that starts a new window but carries the old count into it
checkEntry_accumulating(entry, t) ==
    IF ~entry.has THEN [has |-> TRUE, count |-> 1, resetTime |-> t + WindowMs]
    ELSE IF t > entry.resetTime
         THEN [has |-> TRUE, count |-> entry.count + 1, resetTime |-> t + WindowMs]
         ELSE [entry EXCEPT !.count = @ + 1]

\* RateLimiter.check: the entry stored for the identifier after the call
checkEntry(entry, t) ==
    IF ~entry.has \/ t > entry.resetTime
    THEN [has |-> TRUE, count |-> 1, resetTime |-> t + WindowMs]
    ELSE [entry EXCEPT !.count = @ + 1]

\* a limiter that rejects the call that reaches the maximum
checkResult_inclusive(entry, t, max) ==
    IF ~entry.has \/ t > entry.resetTime
    THEN [allowed |-> TRUE, remaining |-> max - 1, resetTime |-> t + WindowMs]
    ELSE IF entry.count + 1 >= max
         THEN [allowed |-> FALSE, remaining |-> 0, resetTime |-> entry.resetTime]
         ELSE [allowed |-> TRUE, remaining |-> max - (entry.count + 1),
               resetTime |-> entry.resetTime]

\* RateLimiter.check: the value returned to the caller
checkResult(entry, t, max) ==
    IF ~entry.has \/ t > entry.resetTime
    THEN [allowed |-> TRUE, remaining |-> max - 1, resetTime |-> t + WindowMs]
    ELSE IF entry.count + 1 > max
         THEN [allowed |-> FALSE, remaining |-> 0, resetTime |-> entry.resetTime]
         ELSE [allowed |-> TRUE, remaining |-> max - (entry.count + 1),
               resetTime |-> entry.resetTime]

\* RateLimiter.cleanup: the store after the periodic sweep
cleanupStore(st, t) ==
    [k \in DOMAIN st |-> IF st[k].has /\ t > st[k].resetTime THEN NoEntry ELSE st[k]]

NoCheck == [id |-> "none", at |-> 0, had |-> FALSE, elapsed |-> FALSE, prevCount |-> 0,
            allowed |-> FALSE, remaining |-> 0, resetTime |-> 0, after |-> NoEntry]

RLInit ==
    /\ maxRequests \in 1..MaxRequestsCfg
    /\ store = [k \in Identifiers |-> NoEntry]
    /\ lastCheck = NoCheck
    /\ winOpen = [k \in Identifiers |-> -1]
    /\ winCalls = [k \in Identifiers |-> <<>>]
    /\ nChecks = 0

\* One call of rateLimiter.check(identifier), with the observer's own account of
\* the window: a window runs from its opening call until its resetAt has passed.
RLCheck(id) ==
    /\ nChecks < MaxChecks
    /\ LET entry  == store[id]
           res    == checkResult(entry, now, maxRequests)
           inWin  == winOpen[id] >= 0 /\ now <= winOpen[id] + WindowMs
       IN  /\ store' = [store EXCEPT ![id] = checkEntry(entry, now)]
           /\ lastCheck' = [id |-> id, at |-> now, had |-> entry.has,
                            elapsed |-> entry.has /\ now > entry.resetTime,
                            prevCount |-> entry.count,
                            allowed |-> res.allowed, remaining |-> res.remaining,
                            resetTime |-> res.resetTime,
                            after |-> checkEntry(entry, now)]
           /\ winOpen' = [winOpen EXCEPT ![id] = IF inWin THEN @ ELSE now]
           /\ winCalls' = [winCalls EXCEPT ![id] =
                              IF inWin THEN Append(@, res.allowed) ELSE <<res.allowed>>]
    /\ nChecks' = nChecks + 1
    /\ UNCHANGED <<now, maxRequests, restRL>>

\* The setInterval sweep of the rate limiter
RLCleanup ==
    /\ store' = cleanupStore(store, now)
    /\ store' # store
    /\ UNCHANGED <<now, maxRequests, lastCheck, winOpen, winCalls, nChecks, restRL>>

Tick ==
    /\ now < MaxTime
    /\ now' = now + 1
    /\ UNCHANGED <<rlVars, restRL>>

InitRL == now = 0 /\ RLInit /\ SanIdle /\ CsrfIdle /\ TokIdle /\ GwIdle /\ ObsIdle

NextRL == (\E id \in Identifiers : RLCheck(id)) \/ RLCleanup \/ Tick

SpecRL == InitRL /\ [][NextRL]_vars

C2_ElapsedWindowReplaced ==
    lastCheck.elapsed =>
        /\ lastCheck.after = [has |-> TRUE, count |-> 1, resetTime |-> lastCheck.at + WindowMs]
        /\ lastCheck.allowed
        /\ lastCheck.resetTime = lastCheck.at + WindowMs

C2_Witness ==
    /\ lastCheck.elapsed
    /\ lastCheck.prevCount > maxRequests
    /\ lastCheck.after.count = 1

(* ======================= content-filter.ts ============================= *)
\* Texts are sequences of one-character strings.

MaxFrags == 2

WordChars == {"a", "c", "d", "e", "h", "i", "j", "l", "m", "n", "o", "p", "r", "s", "t",
              "v", "x", "y", "J", "S", "4", "_"}
SpaceChars == {" ", "\n", "\t"}
QuoteChars == {"\"", "'"}

\* the /i flag: letters compare without case
Lower(c) == CASE c = "J" -> "j" [] c = "S" -> "s" [] OTHER -> c

StartsWithAt(s, i, pat) ==
    /\ i >= 1
    /\ i + Len(pat) - 1 <= Len(s)
    /\ \A k \in 1..Len(pat) : Lower(s[i + k - 1]) = pat[k]

\* first index >= i whose character is outside set S (Len(s)+1 if none)
RECURSIVE SkipWhile(_, _, _)
SkipWhile(s, i, S) ==
    IF i > Len(s) \/ s[i] \notin S THEN i ELSE SkipWhile(s, i + 1, S)

\* first index >= i whose character is in set S (Len(s)+1 if none)
RECURSIVE SkipUntil(_, _, _)
SkipUntil(s, i, S) ==
    IF i > Len(s) \/ s[i] \in S THEN i ELSE SkipUntil(s, i + 1, S)

\* first index >= i at which pat starts (0 if none)
RECURSIVE FirstAt(_, _, _)
FirstAt(s, i, pat) ==
    IF i + Len(pat) - 1 > Len(s) THEN 0
    ELSE IF StartsWithAt(s, i, pat) THEN i ELSE FirstAt(s, i + 1, pat)

\* /<tag\b[^<]*(?:(?!<\/tag>)<[^<]*)*<\/tag>/gi : index of the last character of
\* the match that starts at i, 0 if the pattern does not match at i
BlockEnd(s, i, open, close) ==
    IF ~StartsWithAt(s, i, open) THEN 0
    ELSE LET j == i + Len(open)
         IN  IF j <= Len(s) /\ s[j] \in WordChars THEN 0
             ELSE LET k == FirstAt(s, j, close)
                  IN  IF k = 0 THEN 0 ELSE k + Len(close) - 1

\* /on\w+\s*=\s*["'][^"']*["']/gi : last index of the match starting at i, else 0
HandlerEnd(s, i) ==
    IF ~StartsWithAt(s, i, <<"o", "n">>) THEN 0
    ELSE LET w == SkipWhile(s, i + 2, WordChars)
         IN  IF w = i + 2 THEN 0
             ELSE LET e == SkipWhile(s, w, SpaceChars)
                  IN  IF e > Len(s) \/ s[e] # "=" THEN 0
                      ELSE LET q == SkipWhile(s, e + 1, SpaceChars)
                           IN  IF q > Len(s) \/ s[q] \notin QuoteChars THEN 0
                               ELSE LET c == SkipUntil(s, q + 1, QuoteChars)
                                    IN  IF c > Len(s) THEN 0 ELSE c

\* String.prototype.replace(/<tag...<\/tag>/gi, '')
RECURSIVE StripBlocks(_, _, _, _)
StripBlocks(s, i, open, close) ==
    IF i > Len(s) THEN <<>>
    ELSE LET e == BlockEnd(s, i, open, close)
         IN  IF e > 0 THEN StripBlocks(s, e + 1, open, close)
             ELSE <<s[i]>> \o StripBlocks(s, i + 1, open, close)

\* String.prototype.replace(/on\w+\s*=\s*["'][^"']*["']/gi, '')
RECURSIVE StripHandlers(_, _)
StripHandlers(s, i) ==
    IF i > Len(s) THEN <<>>
    ELSE LET e == HandlerEnd(s, i)
         IN  IF e > 0 THEN StripHandlers(s, e + 1)
             ELSE <<s[i]>> \o StripHandlers(s, i + 1)

\* String.prototype.replace(/literal/gi, rep)
RECURSIVE ReplaceAll(_, _, _, _)
ReplaceAll(s, i, pat, rep) ==
    IF i > Len(s) THEN <<>>
    ELSE IF StartsWithAt(s, i, pat) THEN rep \o ReplaceAll(s, i + Len(pat), pat, rep)
         ELSE <<s[i]>> \o ReplaceAll(s, i + 1, pat, rep)

T_script == <<"<", "s", "c", "r", "i", "p", "t">>
T_scriptEnd == <<"<", "/", "s", "c", "r", "i", "p", "t", ">">>
T_style == <<"<", "s", "t", "y", "l", "e">>
T_styleEnd == <<"<", "/", "s", "t", "y", "l", "e", ">">>
T_iframe == <<"<", "i", "f", "r", "a", "m", "e">>
T_iframeEnd == <<"<", "/", "i", "f", "r", "a", "m", "e", ">">>
T_object == <<"<", "o", "b", "j", "e", "c", "t">>
T_objectEnd == <<"<", "/", "o", "b", "j", "e", "c", "t", ">">>
T_embed == <<"<", "e", "m", "b", "e", "d">>
T_embedEnd == <<"<", "/", "e", "m", "b", "e", "d", ">">>
T_javascript == <<"j", "a", "v", "a", "s", "c", "r", "i", "p", "t", ":">>
T_dataHtml == <<"d", "a", "t", "a", ":", "t", "e", "x", "t", "/", "h", "t", "m", "l">>

\* sanitizeLlmResponse, first statement: remove executable markup
stripMarkup(t) ==
    LET a == StripBlocks(t, 1, T_script, T_scriptEnd)
        b == StripBlocks(a, 1, T_style, T_styleEnd)
        c == StripBlocks(b, 1, T_iframe, T_iframeEnd)
        d == StripBlocks(c, 1, T_object, T_objectEnd)
        e == StripBlocks(d, 1, T_embed, T_embedEnd)
        f == StripHandlers(e, 1)
        g == ReplaceAll(f, 1, T_javascript, <<>>)
    IN  ReplaceAll(g, 1, T_dataHtml, <<>>)

\* sanitizeLlmResponse, second statement: entity-escape what remains
escapeHtml(t) ==
    LET a == ReplaceAll(t, 1, <<"&">>, <<"&", "a", "m", "p", ";">>)
        b == ReplaceAll(a, 1, <<"<">>, <<"&", "l", "t", ";">>)
        c == ReplaceAll(b, 1, <<">">>, <<"&", "g", "t", ";">>)
        d == ReplaceAll(c, 1, <<"\"">>, <<"&", "q", "u", "o", "t", ";">>)
    IN  ReplaceAll(d, 1, <<"'">>, <<"&", "#", "x", "2", "7", ";">>)

sanitizeLlmResponse(t) == escapeHtml(stripMarkup(t))

\* the pieces from which the model's texts are put together
Fragments == {<<"4">>, <<"&">>, <<"<">>, <<">">>, <<"\"">>, <<"'">>,
              <<"j", "a">>, <<"v", "a", "s", "c", "r", "i", "p", "t", ":">>,
              T_javascript, <<"<", "s", "c", "r", "i", "p", "t", ">">>, T_scriptEnd,
              <<"o", "n", "x", "=", "'">>}

RECURSIVE Concat(_)
Concat(ss) == IF ss = <<>> THEN <<>> ELSE Head(ss) \o Concat(Tail(ss))

Texts == {Concat(ss) : ss \in UNION {[1..n -> Fragments] : n \in 0..MaxFrags}}

SanInit ==
    /\ sText \in Texts
    /\ sOnce = <<>>
    /\ sTwice = <<>>
    /\ sPc = "input"

SanitizeOnce ==
    /\ sPc = "input"
    /\ sOnce' = sanitizeLlmResponse(sText)
    /\ sPc' = "once"
    /\ UNCHANGED <<sText, sTwice, restSan>>

SanitizeAgain ==
    /\ sPc = "once"
    /\ sTwice' = sanitizeLlmResponse(sOnce)
    /\ sPc' = "twice"
    /\ UNCHANGED <<sText, sOnce, restSan>>

RLIdle ==
    /\ maxRequests = 1
    /\ store = [k \in Identifiers |-> NoEntry]
    /\ lastCheck = NoCheck
    /\ winOpen = [k \in Identifiers |-> -1]
    /\ winCalls = [k \in Identifiers |-> <<>>]
    /\ nChecks = 0

InitSan == now = 0 /\ RLIdle /\ SanInit /\ CsrfIdle /\ TokIdle /\ GwIdle /\ ObsIdle

NextSan == SanitizeOnce \/ SanitizeAgain

SpecSan == InitSan /\ [][NextSan]_vars

\* C9: output sanitization is idempotent: sanitizing already-sanitized text
\* yields the same text.
C9_SanitizeIdempotent == sPc = "twice" => sTwice = sOnce

(* ======================= csrf.ts ======================================= *)
\* Token strings are sequences of one-character strings.

CsrfTokenLength == 2

HexDigits == <<"0", "1", "2", "3", "4", "5", "6", "7", "8", "9",
               "a", "b", "c", "d", "e", "f">>

\* the characters a token string of the model is written in; the first four are
\* the hex digits randomBytes(..).toString('hex') draws from
CsrfChars == <<"0", "1", "a", "f", "3", "7", "A", "g", ".">>
RandomHex == {"0", "1", "a", "f"}

Secrets == {"k1", "k2"}

\* every character that occurs in a message the model hashes
HashChars == CsrfChars \o <<"l", "m", "_", "x">>

CharIdx(c) == CHOOSE i \in 1..Len(HashChars) : HashChars[i] = c
KeyIdx(k) == IF k = "k1" THEN 3 ELSE 7

\* createHmac('sha256', key).update(msg).digest('hex'): a keyed digest in
\* lower-case hex, idealised as collision-free (distinct messages, and distinct
\* keys, give distinct digests) and never empty
hmacHex(key, msg) ==
    <<HexDigits[KeyIdx(key) + 1]>> \o
    [i \in 1..Len(msg) |-> HexDigits[((CharIdx(msg[i]) * KeyIdx(key) + i) % 16) + 1]]

\* String.prototype.split(sep) for a one-character separator
RECURSIVE Split(_, _)
Split(s, sep) ==
    LET k == SkipUntil(s, 1, {sep})
    IN  IF k > Len(s) THEN <<s>>
        ELSE <<SubSeq(s, 1, k - 1)>> \o Split(SubSeq(s, k + 1, Len(s)), sep)

\* createSignedToken
createSignedToken(token, secret) == token \o <<".">> \o hmacHex(secret, token)

\* a verifier that compares only the first character of the signature
verifySignedToken_firstChar(signedToken, secret) ==
    LET parts == Split(signedToken, ".")
    IN  IF Len(parts) # 2 THEN FALSE
        ELSE parts[2] # <<>> /\ parts[2][1] = hmacHex(secret, parts[1])[1]

\* verifySignedToken: TRUE when it returns the token, FALSE when it returns null
verifySignedToken(signedToken, secret) ==
    LET parts == Split(signedToken, ".")
    IN  IF Len(parts) # 2 THEN FALSE
        ELSE parts[2] = hmacHex(secret, parts[1])

CsrfInit ==
    /\ csrfSecret \in Secrets
    /\ csrfTok = <<>>
    /\ csrfSrc = NoSrc
    /\ csrfPc = "idle"
    /\ csrfOk = FALSE

\* issue(): generateCsrfToken() followed by createSignedToken()
CsrfIssue ==
    /\ csrfPc = "idle"
    /\ \E v \in [1..CsrfTokenLength -> RandomHex] :
          /\ csrfTok' = createSignedToken(v, csrfSecret)
          /\ csrfSrc' = [kind |-> "issued", value |-> v, sig |-> hmacHex(csrfSecret, v)]
    /\ csrfPc' = "have"
    /\ UNCHANGED <<csrfSecret, csrfOk, restCsrf>>

\* a client presents a string value.signature of its own making
CsrfForge ==
    /\ csrfPc = "idle"
    /\ \E v \in UNION {[1..n -> {"0", "a", "g"}] : n \in 0..CsrfTokenLength},
          g \in UNION {[1..n -> {"3", "7", "a"}] : n \in 0..CsrfTokenLength + 1} :
          /\ csrfTok' = v \o <<".">> \o g
          /\ csrfSrc' = [kind |-> "forged", value |-> v, sig |-> g]
    /\ csrfPc' = "have"
    /\ UNCHANGED <<csrfSecret, csrfOk, restCsrf>>

\* one character of the value part or of the signature part of an issued token
\* is changed to another character
CsrfMutate ==
    /\ csrfPc = "have"
    /\ csrfSrc.kind = "issued"
    /\ \E i \in 1..Len(csrfTok), c \in {CsrfChars[k] : k \in 1..Len(CsrfChars)} :
          /\ i # Len(csrfSrc.value) + 1
          /\ c # csrfTok[i]
          /\ csrfTok' = [csrfTok EXCEPT ![i] = c]
    /\ csrfSrc' = [csrfSrc EXCEPT !.kind = "mutated"]
    /\ UNCHANGED <<csrfSecret, csrfPc, csrfOk, restCsrf>>

CsrfVerify ==
    /\ csrfPc = "have"
    /\ csrfOk' = verifySignedToken(csrfTok, csrfSecret)
    /\ csrfPc' = "verified"
    /\ UNCHANGED <<csrfSecret, csrfTok, csrfSrc, restCsrf>>

InitCsrf == now = 0 /\ RLIdle /\ SanIdle /\ CsrfInit /\ TokIdle /\ GwIdle /\ ObsIdle

NextCsrf == CsrfIssue \/ CsrfForge \/ CsrfMutate \/ CsrfVerify

SpecCsrf == InitCsrf /\ [][NextCsrf]_vars

\* C4: a token string value.signature verifies if and only if signature is the
\* keyed hash of value under the current secret: every issued token verifies and
\* an issued token with one character of either part changed does not.
C4_VerifiesIffSignatureMatches ==
    csrfPc = "verified" =>
        /\ csrfSrc.kind = "issued" => csrfOk
        /\ csrfSrc.kind = "mutated" => ~csrfOk
        /\ csrfSrc.kind = "forged" =>
              (csrfOk <=> csrfSrc.sig = hmacHex(csrfSecret, csrfSrc.value))

C4_Witness ==
    /\ csrfPc = "verified"
    /\ csrfSrc.kind = "mutated"
    /\ \E i \in 1..Len(csrfTok) : i # Len(csrfSrc.value) + 1 /\ csrfTok[i] = "."
    /\ ~csrfOk

(* ======================= api-tokens (APITokenManager) ================== *)

MaxIssued == 2
MaxTokTime == 2
DayMs == 1

ApiTokenSecret == "k2"
TokenIds == {"id1", "id2"}
TokenPrefix == <<"l", "l", "m", "_">>

\* `llm_${randomBytes(32).toString('hex')}`: the random part of the model's tokens
TokenRandoms == {<<"0">>, <<"a">>}

ScopeSets == {{"read"}, {"write"}}

\* APITokenManager.hashToken
hashToken(token) == hmacHex(ApiTokenSecret, token)

\* the APIToken record that generateToken puts into the map
newApiToken(id, token, scopes, expiresInDays, t) ==
    [id |-> id,
     token |-> token,
     hashedToken |-> hashToken(token),
     scopes |-> scopes,
     createdAt |-> t,
     expiresAt |-> IF expiresInDays # 0 THEN t + expiresInDays * DayMs ELSE -1,
     lastUsedAt |-> -1]

\* what generateToken returns: { id, token, createdAt, expiresAt }
generateTokenResult(rec) ==
    [id |-> rec.id, token |-> rec.token, createdAt |-> rec.createdAt,
     expiresAt |-> rec.expiresAt]

\* APITokenManager.getToken: the stored record itself, or nothing
getToken(toks, id) ==
    LET hit == {i \in 1..Len(toks) : toks[i].id = id}
    IN  IF hit = {} THEN <<>> ELSE <<toks[CHOOSE i \in hit : TRUE]>>

\* APITokenManager.listTokens: every record without `token` and `hashedToken`
listTokens(toks) ==
    [i \in 1..Len(toks) |->
        [id |-> toks[i].id, scopes |-> toks[i].scopes, createdAt |-> toks[i].createdAt,
         expiresAt |-> toks[i].expiresAt, lastUsedAt |-> toks[i].lastUsedAt]]

\* index of the first stored token whose hash equals that of `token` (0 if none)
matchIndex(toks, token) ==
    LET hit == {i \in 1..Len(toks) : toks[i].hashedToken = hashToken(token)}
    IN  IF hit = {} THEN 0 ELSE CHOOSE i \in hit : \A j \in hit : i <= j

\* String.prototype.startsWith
startsWith(s, pat) == Len(s) >= Len(pat) /\ SubSeq(s, 1, Len(pat)) = pat

\* a verification that never looks at expiresAt
verifyTokenResult_noExpiry(toks, token, t) ==
    IF ~startsWith(token, TokenPrefix) THEN [valid |-> FALSE, expired |-> FALSE, scopes |-> {}]
    ELSE LET i == matchIndex(toks, token)
         IN  IF i = 0 THEN [valid |-> FALSE, expired |-> FALSE, scopes |-> {}]
             ELSE [valid |-> TRUE, expired |-> FALSE, scopes |-> toks[i].scopes]

\* APITokenManager.verifyToken: the value returned
verifyTokenResult(toks, token, t) ==
    IF ~startsWith(token, TokenPrefix) THEN [valid |-> FALSE, expired |-> FALSE, scopes |-> {}]
    ELSE LET i == matchIndex(toks, token)
         IN  IF i = 0 THEN [valid |-> FALSE, expired |-> FALSE, scopes |-> {}]
             ELSE IF toks[i].expiresAt # -1 /\ toks[i].expiresAt < t
                  THEN [valid |-> FALSE, expired |-> TRUE, scopes |-> {}]
                  ELSE [valid |-> TRUE, expired |-> FALSE, scopes |-> toks[i].scopes]

\* APITokenManager.verifyToken: the map afterwards (lastUsedAt of the match)
verifyTokenStore(toks, token, t) ==
    IF ~verifyTokenResult(toks, token, t).valid THEN toks
    ELSE [toks EXCEPT ![matchIndex(toks, token)].lastUsedAt = t]

\* APITokenManager.revokeToken: what Map.delete returns
revokeTokenResult(toks, id) == \E i \in 1..Len(toks) : toks[i].id = id

\* APITokenManager.revokeToken: the map afterwards
revokeTokenStore(toks, id) == SelectSeq(toks, LAMBDA r : r.id # id)

\* the plaintext tokens found in a sequence of records, stored or returned
PlainIn(recs) ==
    {recs[i].token : i \in {j \in 1..Len(recs) : "token" \in DOMAIN recs[j]}}

\* String.prototype.substring(n) of a text
substring(s, n) == SubSeq(s, n + 1, Len(s))

BearerPrefix == <<"B", "e", "a", "r", "e", "r", " ">>

\* getApiTokenFromRequest: Authorization "Bearer <token>", else X-API-Token,
\* else null (the empty text here)
getApiTokenFromRequest(authHeader, apiTokenHeader) ==
    IF authHeader # <<>> /\ startsWith(authHeader, BearerPrefix)
    THEN substring(authHeader, Len(BearerPrefix))
    ELSE IF apiTokenHeader # <<>> THEN apiTokenHeader
    ELSE <<>>

\* a scope check satisfied by any one of the required scopes
requireApiToken_anyScope(toks, token, requiredScopes, t) ==
    IF token = <<>>
    THEN [authenticated |-> FALSE, error |-> "Missing API token", scopes |-> {}]
    ELSE LET verification == verifyTokenResult(toks, token, t)
         IN  IF ~verification.valid
             THEN [authenticated |-> FALSE,
                   error |-> IF verification.expired THEN "Token expired"
                             ELSE "Invalid token",
                   scopes |-> {}]
             ELSE IF requiredScopes # {}
                     /\ ~(\E scope \in requiredScopes : scope \in verification.scopes)
             THEN [authenticated |-> FALSE, error |-> "Insufficient permissions",
                   scopes |-> {}]
             ELSE [authenticated |-> TRUE, error |-> "", scopes |-> verification.scopes]

\* requireApiToken: the value returned
requireApiToken(toks, token, requiredScopes, t) ==
    IF token = <<>>
    THEN [authenticated |-> FALSE, error |-> "Missing API token", scopes |-> {}]
    ELSE LET verification == verifyTokenResult(toks, token, t)
         IN  IF ~verification.valid
             THEN [authenticated |-> FALSE,
                   error |-> IF verification.expired THEN "Token expired"
                             ELSE "Invalid token",
                   scopes |-> {}]
             ELSE IF requiredScopes # {}
                     /\ ~(\A scope \in requiredScopes : scope \in verification.scopes)
             THEN [authenticated |-> FALSE, error |-> "Insufficient permissions",
                   scopes |-> {}]
             ELSE [authenticated |-> TRUE, error |-> "", scopes |-> verification.scopes]

\* requireApiToken: the map afterwards (verifyToken runs unless no token was sent)
requireApiTokenStore(toks, token, t) ==
    IF token = <<>> THEN toks ELSE verifyTokenStore(toks, token, t)

\* observer: the ledger says the token was issued, is not revoked and has not expired
Live(tk, t) ==
    /\ tk \in DOMAIN ledger
    /\ ~ledger[tk].revoked
    /\ ledger[tk].expiresAt = -1 \/ t <= ledger[tk].expiresAt

\* observer: the scopes the token was issued with (none for a token never issued)
Granted(tk) == IF tk \in DOMAIN ledger THEN ledger[tk].scopes ELSE {}

\* observer: some token issued under this id has not been revoked
Known(id) == \E tk \in DOMAIN ledger : ledger[tk].id = id /\ ~ledger[tk].revoked

\* observer: the ledger once every token issued under id is marked revoked
Revoked(id) ==
    [tk \in DOMAIN ledger |->
        IF ledger[tk].id = id THEN [ledger[tk] EXCEPT !.revoked = TRUE] ELSE ledger[tk]]

\* the tokens a caller may present: issued ones, a malformed one, a well-formed
\* one that was never issued
PresentedTokens == issued \cup {<<"x">>, TokenPrefix \o <<"1">>}

\* the request headers that carry them: Authorization and X-API-Token
AuthHeaders ==
    {<<<<>>, <<>>>>, <<<<"B", "a", "s", "i", "c">>, <<>>>>}
    \cup {<<BearerPrefix \o tk, <<>>>> : tk \in PresentedTokens}
    \cup {<<<<>>, tk>> : tk \in issued}

\* the tokens those requests turn out to carry
RequestTokens == {getApiTokenFromRequest(h[1], h[2]) : h \in AuthHeaders}

\* scope sets demanded besides the routes' own ['read'] and ['write']
RequiredScopeSets == {{}, {"read", "write"}}

TokInit == tokens = <<>> /\ issued = {} /\ ledger = <<>> /\ lastRet = NoRet

\* the random values in the order randomBytes hands them out: the k-th token
\* generated gets the k-th id and the k-th random part, none of them used before
FreshIds == <<"id1", "id2">>
FreshRandoms == <<<<"0">>, <<"a">>>>

\* generateToken(name, scopes, expiresInDays); ids and tokens are fresh random values
TokGenerate ==
    /\ Cardinality(issued) < MaxIssued
    /\ Cardinality(issued) < Len(FreshIds)
    /\ \E sc \in ScopeSets, days \in {0, 1} :
          /\ LET id == FreshIds[Cardinality(issued) + 1]
                 r == FreshRandoms[Cardinality(issued) + 1]
                 rec == newApiToken(id, TokenPrefix \o r, sc, days, now)
                 tk == generateTokenResult(rec).token
             IN  /\ tokens' = Append(tokens, rec)
                 /\ issued' = issued \cup {tk}
                 /\ ledger' = [x \in DOMAIN ledger \cup {tk} |->
                                  IF x = tk
                                  THEN [id |-> id, scopes |-> sc, revoked |-> FALSE,
                                        expiresAt |-> generateTokenResult(rec).expiresAt]
                                  ELSE ledger[x]]
                 /\ lastRet' = [NoRet EXCEPT !.op = "generate", !.ok = TRUE, !.token = tk]
    /\ UNCHANGED <<now, restTok>>

TokVerify ==
    /\ \E tk \in PresentedTokens :
          /\ tokens' = verifyTokenStore(tokens, tk, now)
          /\ lastRet' = [NoRet EXCEPT !.op = "verify",
                                      !.ok = verifyTokenResult(tokens, tk, now).valid,
                                      !.expired = verifyTokenResult(tokens, tk, now).expired,
                                      !.live = Live(tk, now)]
    /\ UNCHANGED <<issued, ledger, now, restTok>>

TokRevoke ==
    /\ \E id \in TokenIds :
          /\ tokens' = revokeTokenStore(tokens, id)
          /\ ledger' = Revoked(id)
          /\ lastRet' = [NoRet EXCEPT !.op = "revoke",
                                      !.ok = revokeTokenResult(tokens, id),
                                      !.known = Known(id),
                                      !.same = (tokens' = tokens)]
    /\ UNCHANGED <<issued, now, restTok>>

TokList ==
    /\ lastRet' = [NoRet EXCEPT !.op = "list", !.ok = TRUE, !.recs = listTokens(tokens)]
    /\ UNCHANGED <<tokens, issued, ledger, now, restTok>>

TokGet ==
    /\ \E id \in TokenIds :
          lastRet' = [NoRet EXCEPT !.op = "get", !.ok = getToken(tokens, id) # <<>>,
                                   !.recs = getToken(tokens, id)]
    /\ UNCHANGED <<tokens, issued, ledger, now, restTok>>

\* requireApiToken(request, requiredScopes), as any route may call it
TokRequire ==
    /\ \E tk \in RequestTokens, need \in RequiredScopeSets :
          LET auth == requireApiToken(tokens, tk, need, now)
          IN  /\ tokens' = requireApiTokenStore(tokens, tk, now)
              /\ lastRet' = [NoRet EXCEPT !.op = "require", !.ok = auth.authenticated,
                                          !.error = auth.error, !.need = need,
                                          !.live = Live(tk, now),
                                          !.granted = Granted(tk)]
    /\ UNCHANGED <<issued, ledger, now, restTok>>

\* GET /api/auth/tokens; the 200 body is listTokens() and is not recorded here
TokRouteGet ==
    /\ \E tk \in RequestTokens :
          LET auth == requireApiToken(tokens, tk, {"read"}, now)
          IN  /\ tokens' = requireApiTokenStore(tokens, tk, now)
              /\ lastRet' =
                    IF ~auth.authenticated
                    THEN [NoRet EXCEPT !.op = "GET", !.status = 401, !.error = auth.error,
                                       !.live = Live(tk, now), !.granted = Granted(tk)]
                    ELSE [NoRet EXCEPT !.op = "GET", !.ok = TRUE, !.status = 200,
                                       !.live = Live(tk, now), !.granted = Granted(tk)]
    /\ UNCHANGED <<issued, ledger, now, restTok>>

\* DELETE /api/auth/tokens with body { id }
TokRouteDelete ==
    /\ \E tk \in RequestTokens, id \in TokenIds \cup {""} :
          LET auth == requireApiToken(tokens, tk, {"write"}, now)
              mid == requireApiTokenStore(tokens, tk, now)
              obs == [NoRet EXCEPT !.op = "DELETE", !.live = Live(tk, now),
                                   !.granted = Granted(tk)]
          IN  IF ~auth.authenticated
              THEN /\ tokens' = mid
                   /\ ledger' = ledger
                   /\ lastRet' = [obs EXCEPT !.status = 401, !.error = auth.error]
              ELSE IF id = ""
              THEN /\ tokens' = mid
                   /\ ledger' = ledger
                   /\ lastRet' = [obs EXCEPT !.status = 400,
                                             !.error = "Token ID is required"]
              ELSE /\ tokens' = revokeTokenStore(mid, id)
                   /\ ledger' = Revoked(id)
                   /\ lastRet' =
                         IF ~revokeTokenResult(mid, id)
                         THEN [obs EXCEPT !.status = 404, !.error = "Token not found"]
                         ELSE [obs EXCEPT !.ok = TRUE, !.status = 200]
    /\ UNCHANGED <<issued, now, restTok>>

\* the clock, as far as token expiry needs it
TokTick ==
    /\ now < MaxTokTime
    /\ now' = now + 1
    /\ UNCHANGED <<tokVars, restTok>>

InitTok == now = 0 /\ RLIdle /\ SanIdle /\ CsrfIdle /\ TokInit /\ GwIdle /\ ObsIdle

NextTok == TokGenerate \/ TokVerify \/ TokRevoke \/ TokList \/ TokGet \/ TokTick

SpecTok == InitTok /\ [][NextTok]_vars

\* the token manager behind requireApiToken and the /api/auth/tokens routes
NextAuth == TokGenerate \/ TokRequire \/ TokRouteGet \/ TokRouteDelete \/ TokTick

SpecAuth == InitTok /\ [][NextAuth]_vars

\* C10: the issuer's stored state never holds a plaintext token, only its keyed
\* hash, and no operation after the issuing call (get by id, list) returns it.
C10_PlaintextNeverRetained ==
    /\ PlainIn(tokens) \cap issued = {}
    /\ lastRet.op \in {"get", "list"} => PlainIn(lastRet.recs) \cap issued = {}

\* the part of C10 that does hold of the code: list returns no secret material
C10_ListOmitsSecrets ==
    lastRet.op = "list" =>
        \A i \in 1..Len(lastRet.recs) :
            DOMAIN lastRet.recs[i] \cap {"token", "hashedToken"} = {}

\* C11: a verification succeeds only for a token the ledger shows as issued, not
\* revoked and not past its expiry; a token past its expiry is refused although its
\* hash still matches a stored record; revoking an id under which no unrevoked
\* token exists returns false and leaves the stored tokens as they were.
C11_VerifyOnlyWhileLive ==
    /\ lastRet.op = "verify" /\ lastRet.ok => lastRet.live
    /\ lastRet.op = "verify" /\ lastRet.expired => ~lastRet.ok /\ ~lastRet.live
    /\ lastRet.op = "revoke" /\ ~lastRet.known => ~lastRet.ok /\ lastRet.same
    /\ lastRet.op = "revoke" /\ lastRet.known => lastRet.ok

\* a token was verified after its expiry: its hash matched and it was refused
C11_Witness == lastRet.op = "verify" /\ lastRet.expired /\ ~lastRet.ok

\* C12: a request is authenticated for a set of required scopes only if its token
\* is live and was granted every one of them; a live token lacking one is refused
\* with 'Insufficient permissions'; the listing route gets past authentication
\* only with the read scope, the revoking route only with the write scope.
C12_AuthenticatedOnlyWithScopes ==
    /\ lastRet.op = "require" /\ lastRet.ok =>
          lastRet.live /\ lastRet.need \subseteq lastRet.granted
    /\ lastRet.op = "require" /\ lastRet.live /\ ~(lastRet.need \subseteq lastRet.granted) =>
          ~lastRet.ok /\ lastRet.error = "Insufficient permissions"
    /\ lastRet.op = "GET" /\ lastRet.status # 401 =>
          lastRet.live /\ "read" \in lastRet.granted
    /\ lastRet.op = "DELETE" /\ lastRet.status # 401 =>
          lastRet.live /\ "write" \in lastRet.granted

\* a live token holding only the read scope was refused on the revoking route
C12_Witness ==
    /\ lastRet.op = "DELETE"
    /\ lastRet.live
    /\ lastRet.granted = {"read"}
    /\ lastRet.status = 401
    /\ lastRet.error = "Insufficient permissions"

(* ======================= ip-filter.ts ================================== *)

NoBlock == [has |-> FALSE, until |-> 0]

\* a filter that still rejects at the very instant the block ends
isAllowedResult_inclusive(ip, wl, bl, enabled, blocks, t) ==
    IF wl # {} /\ ip \notin wl THEN [allowed |-> FALSE, reason |-> "IP not in whitelist"]
    ELSE IF ip \in bl THEN [allowed |-> FALSE, reason |-> "IP is blacklisted"]
    ELSE IF enabled /\ blocks[ip].has /\ blocks[ip].until >= t
         THEN [allowed |-> FALSE, reason |-> "IP is temporarily blocked"]
         ELSE [allowed |-> TRUE, reason |-> ""]

\* a filter that does not look at the dynamic block table
isAllowedResult_ignoreBlocks(ip, wl, bl, enabled, blocks, t) ==
    IF wl # {} /\ ip \notin wl THEN [allowed |-> FALSE, reason |-> "IP not in whitelist"]
    ELSE IF ip \in bl THEN [allowed |-> FALSE, reason |-> "IP is blacklisted"]
    ELSE [allowed |-> TRUE, reason |-> ""]

\* IPFilter.isAllowed: allowed, and the reason when it is not
isAllowedResult(ip, wl, bl, enabled, blocks, t) ==
    IF wl # {} /\ ip \notin wl THEN [allowed |-> FALSE, reason |-> "IP not in whitelist"]
    ELSE IF ip \in bl THEN [allowed |-> FALSE, reason |-> "IP is blacklisted"]
    ELSE IF enabled /\ blocks[ip].has /\ blocks[ip].until > t
         THEN [allowed |-> FALSE, reason |-> "IP is temporarily blocked"]
         ELSE [allowed |-> TRUE, reason |-> ""]

\* IPFilter.isAllowed: dynamicBlocks afterwards (an expired block is removed)
isAllowedBlocks(ip, wl, bl, enabled, blocks, t) ==
    IF (wl # {} /\ ip \notin wl) \/ ip \in bl \/ ~enabled THEN blocks
    ELSE IF blocks[ip].has /\ blocks[ip].until <= t
         THEN [blocks EXCEPT ![ip] = NoBlock]
         ELSE blocks

\* a recordViolation whose increment is written over by a stale count
recordViolationCount_lostUpdate(count, enabled) ==
    IF ~enabled THEN count
    ELSE IF count >= 1 THEN count
    ELSE IF count + 1 >= MaxViolationsBeforeBlock THEN 0 ELSE count + 1

\* IPFilter.recordViolation: the violation count stored afterwards
recordViolationCount(count, enabled) ==
    IF ~enabled THEN count
    ELSE IF count + 1 >= MaxViolationsBeforeBlock THEN 0 ELSE count + 1

\* a recordViolation that blocks one violation late
recordViolationBlocks_late(ip, count, enabled, blocks, t) ==
    IF enabled /\ count + 1 > MaxViolationsBeforeBlock
    THEN [blocks EXCEPT ![ip] = [has |-> TRUE, until |-> t + BlockDurationMs]]
    ELSE blocks

\* IPFilter.recordViolation: dynamicBlocks afterwards
recordViolationBlocks(ip, count, enabled, blocks, t) ==
    IF enabled /\ count + 1 >= MaxViolationsBeforeBlock
    THEN [blocks EXCEPT ![ip] = [has |-> TRUE, until |-> t + BlockDurationMs]]
    ELSE blocks

\* IPFilter.cleanup: dynamicBlocks and violations after the sweep
cleanupBlocks(blocks, t) ==
    [k \in DOMAIN blocks |-> IF blocks[k].has /\ blocks[k].until <= t THEN NoBlock ELSE blocks[k]]

cleanupViolations(vio, blocks, t) ==
    [k \in DOMAIN vio |-> IF blocks[k].has /\ blocks[k].until <= t THEN 0 ELSE vio[k]]

(* ======================= audit logger (csrf.ts, second half) =========== *)

AuditLogMaxEntries == 2

\* a logger that, once full, drops the entry it is handed
auditLog_log_keepOldest(logs, entry) ==
    IF Len(logs) >= AuditLogMaxEntries THEN logs ELSE Append(logs, entry)

\* AuditLogger.log: push, then keep the most recent maxLogs entries
auditLog_log(logs, entry) ==
    LET l == Append(logs, entry)
    IN  IF Len(l) > AuditLogMaxEntries
        THEN SubSeq(l, Len(l) - AuditLogMaxEntries + 1, Len(l))
        ELSE l

RECURSIVE logAll(_, _)
logAll(logs, entries) ==
    IF entries = <<>> THEN logs ELSE logAll(auditLog_log(logs, Head(entries)), Tail(entries))

Event(type, ip) == [eventType |-> type, ipAddress |-> ip]

(* ======================= validator ===================================== *)

MaxPromptLength == 4

ControlChars == {"\\0", "\\x01"}
TrimChars == {" ", "\n", "\t"}

\* String.prototype.trim
RECURSIVE TrimLeft(_)
TrimLeft(s) == IF s # <<>> /\ Head(s) \in TrimChars THEN TrimLeft(Tail(s)) ELSE s

RECURSIVE TrimRight(_)
TrimRight(s) ==
    IF s # <<>> /\ s[Len(s)] \in TrimChars THEN TrimRight(SubSeq(s, 1, Len(s) - 1)) ELSE s

Trim(s) == TrimRight(TrimLeft(s))

\* validatePrompt: ok = it returns, value = what it returns, err = what it throws
validatePrompt(p) ==
    IF ~p.isString THEN [ok |-> FALSE, value |-> <<>>, err |-> "Prompt must be a string"]
    ELSE IF Trim(p.text) = <<>>
         THEN [ok |-> FALSE, value |-> <<>>, err |-> "Prompt cannot be empty"]
    ELSE IF Len(p.text) > MaxPromptLength
         THEN [ok |-> FALSE, value |-> <<>>, err |-> "Prompt exceeds maximum length"]
    ELSE [ok |-> TRUE, value |-> Trim(SelectSeq(p.text, LAMBDA c : c \notin ControlChars)),
          err |-> ""]

\* detectMaliciousPatterns(text).isMalicious.  The punctuation classes and the
\* markup patterns are the code's; its keyword patterns (select..from, cat, ls..)
\* need letters, which the prompts of the model do not contain.
CommandChars == {";", "&", "|", "$", "(", ")", "{", "}", "[", "]"}

detectMaliciousPatterns(text) ==
    \/ \E i \in 1..Len(text) : text[i] \in CommandChars \cup {"#"}
    \/ FirstAt(text, 1, <<"-", "-">>) # 0
    \/ FirstAt(text, 1, T_script) # 0
    \/ FirstAt(text, 1, T_iframe) # 0
    \/ FirstAt(text, 1, T_object) # 0
    \/ FirstAt(text, 1, T_embed) # 0
    \/ FirstAt(text, 1, T_javascript) # 0
    \/ FirstAt(text, 1, T_dataHtml) # 0

ValidProviderIds == {"openai", "anthropic", "ollama"}

\* [...new Set(ids)]: duplicates removed, order of first appearance kept
RECURSIVE Dedupe(_)
Dedupe(ids) ==
    IF ids = <<>> THEN <<>>
    ELSE LET front == Dedupe(SubSeq(ids, 1, Len(ids) - 1))
             last  == ids[Len(ids)]
         IN  IF \E i \in 1..Len(front) : front[i] = last THEN front ELSE Append(front, last)

\* a validation that returns the ids as they were sent
validateProviderIds_keepDuplicates(p) ==
    IF ~p.isArray THEN [ok |-> FALSE, ids |-> <<>>]
    ELSE IF Len(p.items) = 0 THEN [ok |-> FALSE, ids |-> <<>>]
    ELSE IF \E i \in 1..Len(p.items) : p.items[i] \notin ValidProviderIds
         THEN [ok |-> FALSE, ids |-> <<>>]
    ELSE [ok |-> TRUE, ids |-> p.items]

\* validateProviderIds: ok = it returns, ids = what it returns
validateProviderIds(p) ==
    IF ~p.isArray THEN [ok |-> FALSE, ids |-> <<>>]
    ELSE IF Len(p.items) = 0 THEN [ok |-> FALSE, ids |-> <<>>]
    ELSE IF \E i \in 1..Len(p.items) : p.items[i] \notin ValidProviderIds
         THEN [ok |-> FALSE, ids |-> <<>>]
    ELSE [ok |-> TRUE, ids |-> Dedupe(p.items)]

\* sanitizeError for an Error with a message and optional technicalDetails
sanitizeError(e) ==
    IF e.technicalDetails # "" /\ e.technicalDetails # e.message
    THEN <<e.message, " ||| ", e.technicalDetails>>
    ELSE <<e.message>>

(* ======================= provider registry ============================= *)

Registry == {"openai", "anthropic", "ollama"}

\* provider?.requiresApiKey ?? true
requiresApiKey(p) == IF p \in Registry THEN p # "ollama" ELSE TRUE

\* provider?.displayName || response.providerId
providerName(p) ==
    CASE p = "openai" -> "OpenAI (GPT)"
      [] p = "anthropic" -> "Anthropic (Claude)"
      [] p = "ollama" -> "Ollama (Local)"
      [] OTHER -> p

(* ======================= moderator.ts ================================== *)

\* a formatter that leaves the failed responses out
formatResponsesForModerator_skipErrors(responses) ==
    LET good == SelectSeq(responses, LAMBDA x : x.error = <<>>)
    IN  [i \in 1..Len(good) |->
            [name |-> providerName(good[i].providerId), label |-> "",
             text |-> good[i].content]]

\* formatResponsesForModerator: one section per response, in order
formatResponsesForModerator(responses) ==
    [i \in 1..Len(responses) |->
        IF responses[i].error # <<>>
        THEN [name |-> providerName(responses[i].providerId), label |-> "Error: ",
              text |-> responses[i].error]
        ELSE [name |-> providerName(responses[i].providerId), label |-> "",
              text |-> responses[i].content]]

\* createModeratorPrompt: the template with the prompt and the sections filled in
createModeratorPrompt(originalPrompt, responses) ==
    [request |-> originalPrompt, sections |-> formatResponsesForModerator(responses)]

(* ======================= csrf.ts: request validation =================== *)

AllowedOrigins == {"http://localhost:3000", "http://localhost:3001"}

\* getCsrfTokenFromRequest: the header if present, else the cookie, else nothing
getCsrfTokenFromRequest(header, cookie) == IF header # <<>> THEN header ELSE cookie

\* validateCsrfToken
validateCsrfToken(method, header, cookie, secret) ==
    IF method \in {"GET", "HEAD", "OPTIONS"} THEN TRUE
    ELSE LET token == getCsrfTokenFromRequest(header, cookie)
         IN  IF token = <<>> THEN FALSE ELSE verifySignedToken(token, secret)

\* an origin check that lets a request with neither Origin nor Referer through
validateOrigin_lenient(origin, refererOrigin, allowedOrigins) ==
    IF origin = ""
    THEN IF refererOrigin = "" THEN TRUE ELSE refererOrigin \in allowedOrigins
    ELSE origin \in allowedOrigins

\* validateOrigin; a Referer is given by the origin of its URL ("" = header absent)
validateOrigin(origin, refererOrigin, allowedOrigins) ==
    IF origin = ""
    THEN IF refererOrigin = "" THEN FALSE ELSE refererOrigin \in allowedOrigins
    ELSE origin \in allowedOrigins

(* ======================= /api/chat route: POST ========================= *)

MaxArrivals == 4
MaxGwTime == 3

Slots == {"r1", "r2"}
AllIds == ValidProviderIds \cup {"bogus"}

NoErr == [message |-> "", technicalDetails |-> ""]
NoOutcome == [kind |-> "none", raw |-> <<>>, err |-> NoErr]
NoResponse == [providerId |-> "none", content |-> <<>>, error |-> <<>>]
NoModPrompt == [request |-> <<>>, sections |-> <<>>]
NoMod == [enabled |-> FALSE, providerId |-> "", model |-> ""]
NoPrompt == [isString |-> FALSE, text |-> <<>>]
NoIds == [isArray |-> FALSE, items |-> <<>>]
NoKeys == [p \in AllIds |-> ""]

\* what a backend's generateResponse may do
RawOutputs == {<<"4">>, <<"&">>, T_javascript}
TimeoutErr == [message |-> "Request timeout", technicalDetails |-> ""]
AuthErr == [message |-> "Invalid API key", technicalDetails |-> "status 401"]
Outcomes ==
    {[kind |-> "ok", raw |-> x, err |-> NoErr] : x \in RawOutputs}
    \cup {[kind |-> "throw", raw |-> <<>>, err |-> AuthErr],
          [kind |-> "timeout", raw |-> <<>>, err |-> TimeoutErr]}

\* what a client may send
GoodToken == createSignedToken(<<"a", "f">>, "k1")
BadToken == <<"a", "f", ".", "0", "0", "0">>
HeaderTokens == {<<>>, GoodToken, BadToken}
Origins == {"http://localhost:3000", "http://evil.example", ""}
Referers == {"", "http://localhost:3001", "http://evil.example"}
RawPrompts ==
    {[isString |-> TRUE, text |-> <<"2", "+", "2", "?">>],
     [isString |-> TRUE, text |-> <<" ", "2", "\\x01">>],
     [isString |-> TRUE, text |-> <<" ">>],
     [isString |-> TRUE, text |-> <<"2", ";">>],
     [isString |-> TRUE, text |-> <<"2", "+", "2", "+", "2">>],
     NoPrompt}
RawIdLists ==
    {[isArray |-> TRUE, items |-> <<"openai", "ollama">>],
     [isArray |-> TRUE, items |-> <<"openai", "anthropic">>],
     [isArray |-> TRUE, items |-> <<"ollama", "ollama">>],
     [isArray |-> TRUE, items |-> <<"openai", "bogus">>],
     [isArray |-> TRUE, items |-> <<>>],
     NoIds}
ClientKeys ==
    {NoKeys,
     [NoKeys EXCEPT !["openai"] = "ck-o"],
     [NoKeys EXCEPT !["openai"] = "ck-o", !["anthropic"] = " "],
     [NoKeys EXCEPT !["anthropic"] = "ck-a"],
     [NoKeys EXCEPT !["bogus"] = "ck-b"]}
Moderators ==
    {NoMod,
     [enabled |-> TRUE, providerId |-> "openai", model |-> "m1"],
     [enabled |-> TRUE, providerId |-> "anthropic", model |-> "m1"],
     [enabled |-> TRUE, providerId |-> "bogus", model |-> "m1"],
     [enabled |-> TRUE, providerId |-> "ollama", model |-> ""]}
ServerKeyConfigs == {NoKeys, [NoKeys EXCEPT !["anthropic"] = "sk-a"]}

\* key.trim().length > 0 for the key strings of the model
NonBlank(key) == key \notin {"", " "}

\* a resolution that takes a blank client key for a key
resolveKey_noTrim(p, apiKeys, srvKeys) ==
    IF srvKeys[p] # "" THEN [found |-> TRUE, key |-> srvKeys[p]]
    ELSE IF apiKeys[p] # "" THEN [found |-> TRUE, key |-> apiKeys[p]]
    ELSE IF ~requiresApiKey(p) THEN [found |-> TRUE, key |-> ""]
    ELSE [found |-> FALSE, key |-> ""]

\* a resolution that prefers the client's key to the server-held one
resolveKey_clientFirst(p, apiKeys, srvKeys) ==
    IF apiKeys[p] # "" /\ NonBlank(apiKeys[p]) THEN [found |-> TRUE, key |-> apiKeys[p]]
    ELSE IF srvKeys[p] # "" THEN [found |-> TRUE, key |-> srvKeys[p]]
    ELSE IF ~requiresApiKey(p) THEN [found |-> TRUE, key |-> ""]
    ELSE [found |-> FALSE, key |-> ""]

\* lines 135-152 and 252-265: server-held key, else the client's, else empty
\* when the provider needs none
resolveKey(p, apiKeys, srvKeys) ==
    IF srvKeys[p] # "" THEN [found |-> TRUE, key |-> srvKeys[p]]
    ELSE IF apiKeys[p] # "" /\ NonBlank(apiKeys[p]) THEN [found |-> TRUE, key |-> apiKeys[p]]
    ELSE IF ~requiresApiKey(p) THEN [found |-> TRUE, key |-> ""]
    ELSE [found |-> FALSE, key |-> ""]

\* missingKeys after the loop of lines 135-152
missingKeys(ids, apiKeys, srvKeys) ==
    SelectSeq(ids, LAMBDA p : ~resolveKey(p, apiKeys, srvKeys).found)

\* lines 165-230: the ChatResponse one backend's promise resolves to
providerResult(p, outcome) ==
    IF p \notin Registry
    THEN [providerId |-> p, content |-> <<>>, error |-> <<"Provider not found">>]
    ELSE IF outcome.kind = "ok"
         THEN [providerId |-> p, content |-> sanitizeLlmResponse(outcome.raw), error |-> <<>>]
         ELSE [providerId |-> p, content |-> <<>>, error |-> sanitizeError(outcome.err)]

\* a join that goes on as soon as one promise has settled
allSettled_first(settled) == \E i \in 1..Len(settled) : settled[i].done

\* line 233: the promise of Promise.allSettled(promises) is fulfilled
allSettled(settled) == \A i \in 1..Len(settled) : settled[i].done

\* a join that gives up on the calls that follow a failed one
joinResponses_failFast(settled) ==
    [i \in 1..Len(settled) |->
        IF \E j \in 1..(i - 1) : settled[j].resp.error # <<>>
        THEN [settled[i].resp EXCEPT !.content = <<>>, !.error = <<"Request cancelled">>]
        ELSE settled[i].resp]

\* lines 233-248: Promise.allSettled and the map over its results
joinResponses(settled) == [i \in 1..Len(settled) |-> settled[i].resp]

\* a moderator branch that drops the moderator when its key is missing
moderatorStep_silentMissingKey(mod, ids, apiKeys, srvKeys) ==
    IF ~(mod.enabled /\ mod.providerId # "" /\ mod.model # "") THEN "skip"
    ELSE IF ~resolveKey(mod.providerId, apiKeys, srvKeys).found THEN "skip"
    ELSE IF Len(ids) = 0 THEN "no providers"
    ELSE IF mod.providerId \notin Registry THEN "not found"
    ELSE "call"

\* lines 251-291: what the moderator branch does before any backend call
moderatorStep(mod, ids, apiKeys, srvKeys) ==
    IF ~(mod.enabled /\ mod.providerId # "" /\ mod.model # "") THEN "skip"
    ELSE IF ~resolveKey(mod.providerId, apiKeys, srvKeys).found THEN "missing key"
    ELSE IF Len(ids) = 0 THEN "no providers"
    ELSE IF mod.providerId \notin Registry THEN "not found"
    ELSE "call"

ModeratorError(text) == [providerId |-> "moderator", content |-> <<>>, error |-> <<text>>]

\* a moderator result that hands a failure's text over as content
moderatorResult_contentOnError(outcome) ==
    IF outcome.kind = "ok"
    THEN [providerId |-> "moderator", content |-> sanitizeLlmResponse(outcome.raw),
          error |-> <<>>]
    ELSE [providerId |-> "moderator", content |-> sanitizeError(outcome.err), error |-> <<>>]

\* lines 297-338: the ChatResponse pushed once the moderator call has settled
moderatorResult(outcome) ==
    IF outcome.kind = "ok"
    THEN [providerId |-> "moderator", content |-> sanitizeLlmResponse(outcome.raw),
          error |-> <<>>]
    ELSE [providerId |-> "moderator", content |-> <<>>, error |-> sanitizeError(outcome.err)]

NoVio == [recorded |-> FALSE, at |-> 0, before |-> 0, after |-> 0, blockUntil |-> -1]

\* a handler slot: the request's attributes as they become known, the handler's
\* position, and once pc = "done" the response that was sent; logged and errLogged
\* count the audit events, and the provider-error events among them, it has caused
IdleReq ==
    [pc |-> "idle", ip |-> "none", at |-> 0, mwAllowed |-> FALSE, mwListed |-> FALSE,
     mwBlocked |-> FALSE, header |-> <<>>, cookie |-> <<>>, origin |-> "", referer |-> "",
     rlAllowed |-> FALSE,
     rawPrompt |-> NoPrompt, rawIds |-> NoIds, prompt |-> <<>>, ids |-> <<>>,
     apiKeys |-> NoKeys, validated |-> FALSE, settled |-> <<>>, calls |-> <<>>,
     responses |-> <<>>, mod |-> NoMod, status |-> 0, reason |-> "",
     missingKeys |-> <<>>, vio |-> NoVio, blockedAtEnd |-> FALSE,
     logged |-> 0, errLogged |-> 0, modOutcome |-> NoOutcome, modReading |-> FALSE]

\* what the clients and the backends of a specification may do
FullEnv ==
    [ips |-> {"ip1"}, whitelists |-> {{}, {"ip2"}}, blacklists |-> {{}, {"ip1"}},
     serverKeyConfigs |-> ServerKeyConfigs,
     headers |-> HeaderTokens, cookies |-> {<<>>, GoodToken},
     origins |-> Origins, referers |-> Referers,
     sizes |-> BOOLEAN, jsons |-> BOOLEAN, prompts |-> RawPrompts,
     idLists |-> RawIdLists, keys |-> ClientKeys, outcomes |-> Outcomes,
     mods |-> Moderators]

SmallEnv ==
    [ips |-> Identifiers, whitelists |-> {{}}, blacklists |-> {{"ip2"}},
     serverKeyConfigs |-> {NoKeys},
     headers |-> {<<>>, GoodToken}, cookies |-> {<<>>},
     origins |-> {"http://localhost:3000"},
     referers |-> {""},
     sizes |-> {FALSE}, jsons |-> {TRUE},
     prompts |-> {[isString |-> TRUE, text |-> <<"2", "+", "2", "?">>]},
     idLists |-> {[isArray |-> TRUE, items |-> <<"ollama">>]},
     keys |-> {NoKeys},
     outcomes |-> {[kind |-> "ok", raw |-> <<"4">>, err |-> NoErr]},
     mods |-> {NoMod}]

gwConfig == <<whitelist, blacklist, enableDynamicBlocking, serverKeys>>

Blocked(ip) == obsBlock[ip] > now

ListedOut(ip) == (whitelist # {} /\ ip \notin whitelist) \/ ip \in blacklist

\* ipFilter.recordViolation(ip, ..) as part of a handler step
RecordViolation(ip) ==
    /\ violations' = [violations EXCEPT ![ip] = recordViolationCount(@, enableDynamicBlocking)]
    /\ dynamicBlocks' = recordViolationBlocks(ip, violations[ip], enableDynamicBlocking,
                                              dynamicBlocks, now)
    /\ obsBlock' = IF enableDynamicBlocking /\ violations[ip] + 1 >= MaxViolationsBeforeBlock
                   THEN [obsBlock EXCEPT ![ip] = now + BlockDurationMs]
                   ELSE obsBlock
    /\ vioCalls' = IF enableDynamicBlocking THEN [vioCalls EXCEPT ![ip] = @ + 1] ELSE vioCalls

\* observer: what that recordViolation call finds and leaves
VioNote(ip) ==
    LET b == recordViolationBlocks(ip, violations[ip], enableDynamicBlocking,
                                   dynamicBlocks, now)
    IN  [recorded |-> TRUE, at |-> now, before |-> violations[ip],
         after |-> recordViolationCount(violations[ip], enableDynamicBlocking),
         blockUntil |-> IF b[ip].has THEN b[ip].until ELSE -1]

NoViolation == UNCHANGED <<violations, dynamicBlocks, obsBlock, vioCalls>>

\* the handler of slot r sends its response
Respond(r, q, status, reason, vio) ==
    reqs' = [reqs EXCEPT ![r] = [q EXCEPT !.pc = "done", !.status = status,
                                          !.reason = reason, !.vio = vio,
                                          !.blockedAtEnd = Blocked(q.ip)]]

\* a rejection that records the violation and leaves the audit log alone
Reject_unlogged(r, q, status, reason, event) ==
    /\ UNCHANGED auditLog
    /\ RecordViolation(q.ip)
    /\ Respond(r, [q EXCEPT !.logged = @ + 1], status, reason, VioNote(q.ip))

\* the response carries a violation: the audit event, recordViolation, the response
Reject(r, q, status, reason, event) ==
    /\ auditLog' = auditLog_log(auditLog, Event(event, q.ip))
    /\ RecordViolation(q.ip)
    /\ Respond(r, [q EXCEPT !.logged = @ + 1], status, reason, VioNote(q.ip))

\* a response with no audit event and no violation
Reply(r, q, status, reason) ==
    /\ Respond(r, q, status, reason, NoVio)
    /\ NoViolation
    /\ UNCHANGED auditLog

Free(r) == reqs[r].pc \in {"idle", "done"}

\* middleware.ts, lines 19-29: a request arrives and passes the IP filter or not
GwMiddleware(r, E) ==
    /\ Free(r)
    /\ r = "r2" => ~Free("r1")
    /\ arrivals < MaxArrivals
    /\ \E ip \in E.ips :
          LET res == isAllowedResult(ip, whitelist, blacklist, enableDynamicBlocking,
                                     dynamicBlocks, now)
              q   == [IdleReq EXCEPT !.ip = ip, !.at = now, !.mwAllowed = res.allowed,
                                     !.mwListed = ListedOut(ip), !.mwBlocked = Blocked(ip)]
          IN  /\ dynamicBlocks' = isAllowedBlocks(ip, whitelist, blacklist,
                                                  enableDynamicBlocking, dynamicBlocks, now)
              /\ IF res.allowed
                 THEN /\ reqs' = [reqs EXCEPT ![r] = [q EXCEPT !.pc = "mw"]]
                      /\ UNCHANGED auditLog
                 ELSE /\ auditLog' = auditLog_log(auditLog, Event("suspicious_activity", ip))
                      /\ Respond(r, [q EXCEPT !.logged = @ + 1], 403, "ip", NoVio)
    /\ arrivals' = arrivals + 1
    /\ UNCHANGED <<now, store, gwConfig, violations, obsBlock, vioCalls, rlGhost, restGw>>

\* POST, lines 17-82: CSRF, origin, rate limit and request size, up to the
\* first await (request.json())
GwHandlerStart(r, E) ==
    /\ reqs[r].pc = "mw"
    /\ \E header \in E.headers, cookie \in E.cookies :
          LET ip == reqs[r].ip
              q0 == [reqs[r] EXCEPT !.header = header, !.cookie = cookie]
          IN  IF ~validateCsrfToken("POST", header, cookie, csrfSecret)
              THEN Reject(r, q0, 403, "csrf", "csrf_failure") /\ UNCHANGED <<store, rlGhost>>
              ELSE \E origin \in E.origins, referer \in E.referers :
                 /\ origin # "" => referer = ""
                 /\ LET q1 == [q0 EXCEPT !.origin = origin, !.referer = referer]
                        rl == checkResult(store[ip], now, maxRequests)
                        q2 == [q1 EXCEPT !.rlAllowed = rl.allowed]
                        inWin == winOpen[ip] >= 0 /\ now <= winOpen[ip] + WindowMs
                    IN  IF ~validateOrigin(origin, referer, AllowedOrigins)
                        THEN Reject(r, q1, 403, "origin", "suspicious_activity")
                             /\ UNCHANGED <<store, rlGhost>>
                        ELSE /\ store' = [store EXCEPT ![ip] = checkEntry(@, now)]
                             /\ winOpen' = [winOpen EXCEPT ![ip] = IF inWin THEN @ ELSE now]
                             /\ winCalls' = [winCalls EXCEPT ![ip] =
                                    IF inWin THEN Append(@, rl.allowed) ELSE <<rl.allowed>>]
                             /\ IF ~rl.allowed
                                THEN Reject(r, q2, 429, "rate", "rate_limit_exceeded")
                                ELSE \E tooBig \in E.sizes :
                                        IF tooBig
                                        THEN Reply(r, q2, 500, "size")
                                        ELSE /\ reqs' = [reqs EXCEPT ![r] = [q2 EXCEPT !.pc = "body"]]
                                             /\ NoViolation
                                             /\ UNCHANGED auditLog
    /\ UNCHANGED <<now, gwConfig, arrivals, restGw>>


\* lines 165-181: the promises of the fan-out, one per validated id, as they stand
\* when the handler reaches Promise.allSettled; a backend missing from the
\* registry has resolved already; reading = the call's fetch has resolved and the
\* call is reading the response body
startedPromises(ids) ==
    [i \in 1..Len(ids) |->
        IF ids[i] \in Registry
        THEN [done |-> FALSE, resp |-> NoResponse, outcome |-> NoOutcome, reading |-> FALSE]
        ELSE [done |-> TRUE, resp |-> providerResult(ids[i], NoOutcome), outcome |-> NoOutcome,
              reading |-> FALSE]]

\* lines 176-180: the generateResponse calls the fan-out makes
startedCalls(ids, prompt, apiKeys, srvKeys) ==
    LET known == SelectSeq(ids, LAMBDA p : p \in Registry)
    IN  [i \in 1..Len(known) |->
            [kind |-> "backend", providerId |-> known[i],
             apiKey |-> resolveKey(known[i], apiKeys, srvKeys).key,
             prompt |-> prompt, modPrompt |-> NoModPrompt]]

\* POST, lines 84-233: the body is parsed and validated, keys are resolved and
\* every backend call is started; the handler then awaits Promise.allSettled
GwHandlerBody(r, E) ==
    /\ reqs[r].pc = "body"
    /\ \E jsonOk \in E.jsons :
        IF ~jsonOk THEN Reply(r, reqs[r], 400, "json")
        ELSE \E rawPrompt \in E.prompts :
          LET q1 == [reqs[r] EXCEPT !.rawPrompt = rawPrompt]
              vp == validatePrompt(rawPrompt)
          IN  IF ~vp.ok
              THEN /\ auditLog' = auditLog_log(auditLog, Event("invalid_input", q1.ip))
                   /\ Respond(r, [q1 EXCEPT !.logged = @ + 1], 400, "prompt", NoVio)
                   /\ NoViolation
              ELSE IF detectMaliciousPatterns(vp.value)
              THEN Reject(r, q1, 400, "malicious", "suspicious_activity")
              ELSE \E rawIds \in E.idLists :
                LET q2 == [q1 EXCEPT !.rawIds = rawIds, !.prompt = vp.value]
                    vi == validateProviderIds(rawIds)
                IN  IF ~vi.ok THEN Reply(r, q2, 400, "providers")
                    ELSE \E apiKeys \in E.keys :
                      LET q3 == [q2 EXCEPT !.ids = vi.ids, !.apiKeys = apiKeys,
                                           !.validated = TRUE]
                          mk == missingKeys(vi.ids, apiKeys, serverKeys)
                      IN  IF mk # <<>>
                          THEN Reply(r, [q3 EXCEPT !.missingKeys = mk], 400, "keys")
                          ELSE /\ reqs' = [reqs EXCEPT ![r] =
                                    [q3 EXCEPT !.pc = "fanout",
                                               !.settled = startedPromises(vi.ids),
                                               !.calls = startedCalls(vi.ids, vp.value,
                                                                      apiKeys, serverKeys)]]
                               /\ NoViolation
                               /\ UNCHANGED auditLog
    /\ UNCHANGED <<now, store, gwConfig, arrivals, rlGhost, restGw>>

\* the number of audit events a settled generateResponse call causes, and the
\* number of logProviderError events among them
usageCount(outcome) == IF outcome.kind = "ok" THEN 1 ELSE 2
errorCount(outcome) == IF outcome.kind = "ok" THEN 0 ELSE 1

\* logApiKeyUsage / logProviderError around a settled generateResponse call
usageEvents(logs, outcome, ip) ==
    IF outcome.kind = "ok"
    THEN auditLog_log(logs, Event("api_key_usage", ip))
    ELSE logAll(logs, <<Event("error", ip), Event("api_key_usage", ip)>>)

\* lines 180-229: one backend call of the fan-out settles (it returns text,
\* throws, or its timeout fires) and its promise resolves to a ChatResponse
GwProviderSettle(r, E) ==
    /\ reqs[r].pc = "fanout"
    /\ \E i \in 1..Len(reqs[r].settled), o \in E.outcomes :
          /\ ~reqs[r].settled[i].done
          /\ o.kind = "timeout" => ~reqs[r].settled[i].reading
          /\ reqs' = [reqs EXCEPT ![r].settled[i] =
                         [done |-> TRUE, resp |-> providerResult(reqs[r].ids[i], o),
                          outcome |-> o, reading |-> FALSE],
                                   ![r].logged = @ + usageCount(o),
                                   ![r].errLogged = @ + errorCount(o)]
          /\ auditLog' = usageEvents(auditLog, o, reqs[r].ip)
    /\ NoViolation
    /\ UNCHANGED <<now, store, gwConfig, arrivals, rlGhost, restGw>>

\* lines 233-297 and 343: every promise has settled; the responses are collected
\* and the moderator branch is skipped, adds an error, or starts the moderator call
GwJoin(r, E) ==
    /\ reqs[r].pc = "fanout"
    /\ allSettled(reqs[r].settled)
    /\ \E mod \in E.mods :
          LET q    == [reqs[r] EXCEPT !.mod = mod,
                                      !.responses = joinResponses(reqs[r].settled)]
              step == moderatorStep(mod, q.ids, q.apiKeys, serverKeys)
              fail(text) == [q EXCEPT !.responses = Append(@, ModeratorError(text))]
          IN  CASE step = "skip" -> Respond(r, q, 200, "ok", NoVio)
                [] step = "missing key" ->
                     Respond(r, fail("Missing API key for moderator provider"), 200, "ok", NoVio)
                [] step = "no providers" ->
                     Respond(r, fail("No providers selected for comparison"), 200, "ok", NoVio)
                [] step = "not found" ->
                     Respond(r, fail("Moderator provider not found"), 200, "ok", NoVio)
                [] step = "call" ->
                     reqs' = [reqs EXCEPT ![r] =
                        [q EXCEPT !.pc = "moderating",
                                  !.calls = Append(@,
                                      [kind |-> "moderator", providerId |-> mod.providerId,
                                       apiKey |-> resolveKey(mod.providerId, q.apiKeys,
                                                             serverKeys).key,
                                       prompt |-> <<>>,
                                       modPrompt |-> createModeratorPrompt(q.prompt,
                                                                           q.responses)])]]
    /\ NoViolation
    /\ UNCHANGED <<now, store, gwConfig, auditLog, arrivals, rlGhost, restGw>>

\* lines 297-343: the moderator call settles and the response is sent
GwModeratorSettle(r, E) ==
    /\ reqs[r].pc = "moderating"
    /\ \E o \in E.outcomes :
          /\ o.kind = "timeout" => ~reqs[r].modReading
          /\ Respond(r, [reqs[r] EXCEPT !.responses = Append(@, moderatorResult(o)),
                                         !.modOutcome = o, !.modReading = FALSE,
                                         !.logged = @ + usageCount(o),
                                         !.errLogged = @ + errorCount(o)],
                     200, "ok", NoVio)
          /\ auditLog' = usageEvents(auditLog, o, reqs[r].ip)
    /\ NoViolation
    /\ UNCHANGED <<now, store, gwConfig, arrivals, rlGhost, restGw>>

\* the backends whose generateResponse races only its fetch against the timeout
\* and reads the response body after the race is decided (OllamaProvider)
ReadsBodyAfterRace == {"ollama"}

\* OllamaProvider.generateResponse, lines 250-260: the fetch of a pending call
\* resolves with the response headers before the timeout; the call goes on to
\* read the body
GwProviderHeaders(r) ==
    /\ reqs[r].pc = "fanout"
    /\ \E i \in 1..Len(reqs[r].settled) :
          /\ ~reqs[r].settled[i].done /\ ~reqs[r].settled[i].reading
          /\ reqs[r].ids[i] \in ReadsBodyAfterRace
          /\ reqs' = [reqs EXCEPT ![r].settled[i].reading = TRUE]
    /\ NoViolation
    /\ UNCHANGED <<now, store, gwConfig, auditLog, arrivals, rlGhost, restGw>>

\* createTimeout / withTimeout: the timer of a pending call fires while its race
\* is undecided; the call throws 'Request timeout' and its promise resolves
GwProviderTimeout(r) ==
    /\ reqs[r].pc = "fanout"
    /\ \E i \in 1..Len(reqs[r].settled) :
          LET o == [kind |-> "timeout", raw |-> <<>>, err |-> TimeoutErr]
          IN  /\ ~reqs[r].settled[i].done /\ ~reqs[r].settled[i].reading
              /\ reqs' = [reqs EXCEPT ![r].settled[i] =
                             [done |-> TRUE, resp |-> providerResult(reqs[r].ids[i], o),
                              outcome |-> o, reading |-> FALSE],
                                       ![r].logged = @ + usageCount(o),
                                       ![r].errLogged = @ + errorCount(o)]
              /\ auditLog' = usageEvents(auditLog, o, reqs[r].ip)
    /\ NoViolation
    /\ UNCHANGED <<now, store, gwConfig, arrivals, rlGhost, restGw>>

\* the same two steps of the moderator call
GwModeratorHeaders(r) ==
    /\ reqs[r].pc = "moderating"
    /\ ~reqs[r].modReading
    /\ reqs[r].mod.providerId \in ReadsBodyAfterRace
    /\ reqs' = [reqs EXCEPT ![r].modReading = TRUE]
    /\ NoViolation
    /\ UNCHANGED <<now, store, gwConfig, auditLog, arrivals, rlGhost, restGw>>

GwModeratorTimeout(r) ==
    /\ reqs[r].pc = "moderating"
    /\ ~reqs[r].modReading
    /\ LET o == [kind |-> "timeout", raw |-> <<>>, err |-> TimeoutErr]
       IN  /\ Respond(r, [reqs[r] EXCEPT !.responses = Append(@, moderatorResult(o)),
                                          !.modOutcome = o,
                                          !.logged = @ + usageCount(o),
                                          !.errLogged = @ + errorCount(o)],
                      200, "ok", NoVio)
           /\ auditLog' = usageEvents(auditLog, o, reqs[r].ip)
    /\ NoViolation
    /\ UNCHANGED <<now, store, gwConfig, arrivals, rlGhost, restGw>>

\* ip-filter.ts, lines 136-154: the periodic sweep of expired blocks
GwIpCleanup ==
    /\ dynamicBlocks' = cleanupBlocks(dynamicBlocks, now)
    /\ violations' = cleanupViolations(violations, dynamicBlocks, now)
    /\ vioCalls' = cleanupViolations(vioCalls, dynamicBlocks, now)
    /\ dynamicBlocks' # dynamicBlocks
    /\ UNCHANGED <<now, store, gwConfig, auditLog, reqs, arrivals, obsBlock, rlGhost, restGw>>

\* rate-limiter.ts, lines 20 and 86-93: the periodic sweep of expired windows
GwRateCleanup ==
    /\ store' = cleanupStore(store, now)
    /\ store' # store
    /\ UNCHANGED <<now, gwVars, rlGhost, restGw>>

GwTick ==
    /\ now < MaxGwTime
    /\ now' = now + 1
    /\ UNCHANGED <<store, gwVars, rlGhost, restGw>>

GwInit(E) ==
    /\ whitelist \in E.whitelists
    /\ blacklist \in E.blacklists
    /\ enableDynamicBlocking = TRUE
    /\ violations = [k \in Identifiers |-> 0]
    /\ dynamicBlocks = [k \in Identifiers |-> NoBlock]
    /\ obsBlock = [k \in Identifiers |-> -1]
    /\ vioCalls = [k \in Identifiers |-> 0]
    /\ auditLog = <<>>
    /\ serverKeys \in E.serverKeyConfigs
    /\ reqs = [r \in Slots |-> IdleReq]
    /\ arrivals = 0

InitGw(E) ==
    /\ now = 0
    /\ maxRequests = 1
    /\ store = [k \in Identifiers |-> NoEntry]
    /\ lastCheck = NoCheck
    /\ winOpen = [k \in Identifiers |-> -1]
    /\ winCalls = [k \in Identifiers |-> <<>>]
    /\ nChecks = 0
    /\ SanIdle /\ CsrfIdle /\ TokIdle /\ ObsIdle
    /\ GwInit(E)

\* concurrent requests of several clients, the clock and the sweeps
NextGw ==
    \/ \E r \in Slots : GwMiddleware(r, SmallEnv)
    \/ \E r \in Slots : GwHandlerStart(r, SmallEnv)
    \/ \E r \in Slots : GwHandlerBody(r, SmallEnv)
    \/ \E r \in Slots : GwProviderSettle(r, SmallEnv)
    \/ \E r \in Slots : GwJoin(r, SmallEnv)
    \/ GwIpCleanup
    \/ GwRateCleanup
    \/ GwTick

SpecGw == InitGw(SmallEnv) /\ [][NextGw]_vars

\* one client's requests, one after the other, with every kind of body,
\* backend outcome and moderator setting
NextDispatch ==
    \/ GwMiddleware("r1", FullEnv)
    \/ GwHandlerStart("r1", FullEnv)
    \/ GwHandlerBody("r1", FullEnv)
    \/ GwProviderSettle("r1", FullEnv)
    \/ GwJoin("r1", FullEnv)
    \/ GwModeratorSettle("r1", FullEnv)

SpecDispatch == InitGw(FullEnv) /\ [][NextDispatch]_vars

\* the dispatches of one client whose backends may answer, fail, answer in part
\* or stay silent
TimeoutEnv ==
    [ips |-> {"ip1"}, whitelists |-> {{}}, blacklists |-> {{}}, serverKeyConfigs |-> {NoKeys},
     headers |-> {GoodToken}, cookies |-> {<<>>},
     origins |-> {"http://localhost:3000"}, referers |-> {""},
     sizes |-> {FALSE}, jsons |-> {TRUE},
     prompts |-> {[isString |-> TRUE, text |-> <<"2", "+", "2", "?">>]},
     idLists |-> {[isArray |-> TRUE, items |-> <<"openai", "ollama">>],
                  [isArray |-> TRUE, items |-> <<"openai", "anthropic">>]},
     keys |-> {[NoKeys EXCEPT !["openai"] = "ck-o", !["anthropic"] = "ck-a"]},
     outcomes |-> {o \in Outcomes : o.kind # "timeout"},
     mods |-> {NoMod,
               [enabled |-> TRUE, providerId |-> "openai", model |-> "m1"],
               [enabled |-> TRUE, providerId |-> "ollama", model |-> "m1"]}]

NextTimeout ==
    \/ GwMiddleware("r1", TimeoutEnv)
    \/ GwHandlerStart("r1", TimeoutEnv)
    \/ GwHandlerBody("r1", TimeoutEnv)
    \/ GwProviderSettle("r1", TimeoutEnv)
    \/ GwProviderHeaders("r1")
    \/ GwProviderTimeout("r1")
    \/ GwJoin("r1", TimeoutEnv)
    \/ GwModeratorSettle("r1", TimeoutEnv)
    \/ GwModeratorHeaders("r1")
    \/ GwModeratorTimeout("r1")
    \/ GwTick

\* the handler runs on when the promise it awaits has settled, and a timer that
\* was set fires; nothing makes a backend answer
SpecTimeout ==
    /\ InitGw(TimeoutEnv)
    /\ [][NextTimeout]_vars
    /\ WF_vars(GwHandlerStart("r1", TimeoutEnv))
    /\ WF_vars(GwHandlerBody("r1", TimeoutEnv))
    /\ WF_vars(GwJoin("r1", TimeoutEnv))
    /\ WF_vars(GwProviderTimeout("r1"))
    /\ WF_vars(GwModeratorTimeout("r1"))


(* ======================= claims about the gateway ====================== *)

\* C3, as stated: every request of an identifier that is handled while the
\* identifier is blocked is rejected, requests already in flight when the block
\* was set included.
C3_BlockedRejectsInFlight ==
    \A r \in Slots :
        reqs[r].pc = "done" /\ reqs[r].blockedAtEnd => reqs[r].status # 200

\* C3, amended: the violation that reaches maxViolationsBeforeBlock sets a block
\* until now + blockDuration and resets the count; every request whose IP check
\* happens while the block lasts is rejected with 403 before CSRF, origin and
\* rate limit are looked at and calls no backend; a request whose IP check
\* happens once blockedUntil has passed is allowed again.
C3_BlockedAtAdmission ==
    /\ \A ip \in Identifiers :
          Blocked(ip) => dynamicBlocks[ip] = [has |-> TRUE, until |-> obsBlock[ip]]
    /\ \A r \in Slots :
          LET q == reqs[r]
          IN  /\ q.pc # "idle" /\ q.mwBlocked =>
                    /\ q.pc = "done" /\ q.status = 403 /\ q.reason = "ip"
                    /\ q.calls = <<>> /\ q.header = <<>> /\ ~q.rlAllowed
              /\ q.pc # "idle" /\ ~q.mwBlocked /\ ~q.mwListed =>
                    q.mwAllowed /\ q.reason # "ip"
              /\ q.vio.recorded =>
                    IF q.vio.before + 1 >= MaxViolationsBeforeBlock
                    THEN q.vio.after = 0 /\ q.vio.blockUntil = q.vio.at + BlockDurationMs
                    ELSE q.vio.after = q.vio.before + 1

\* a request is turned away during a block while another of the same client,
\* admitted before the block was set, is still being handled
C3_Witness ==
    \E r, x \in Slots :
        /\ reqs[r].pc = "done" /\ reqs[r].mwBlocked /\ reqs[r].status = 403
        /\ reqs[x].pc \in {"mw", "body", "fanout"} /\ reqs[x].ip = reqs[r].ip

\* C5: in a dispatch each backend's result depends on its own call only: the
\* response has status 200 and holds, in order, one result per backend,
\* content-tagged when that backend's call returned and error-tagged when it
\* threw or timed out, whatever the sibling calls did.
C5_SiblingsIndependent ==
    \A r \in Slots :
        LET q == reqs[r]
        IN  q.pc = "done" /\ q.calls # <<>> =>
              /\ q.status = 200
              /\ Len(q.responses) >= Len(q.ids)
              /\ \A i \in 1..Len(q.ids) :
                    LET o == q.settled[i].outcome
                        x == q.responses[i]
                    IN  /\ x.providerId = q.ids[i]
                        /\ IF o.kind = "ok"
                           THEN x.error = <<>> /\ x.content = sanitizeLlmResponse(o.raw)
                           ELSE x.content = <<>> /\ x.error = sanitizeError(o.err)

C5_Witness ==
    \E r \in Slots :
        LET q == reqs[r]
        IN  /\ q.pc = "done" /\ q.status = 200 /\ Len(q.ids) = 2
            /\ q.settled[1].outcome.kind = "timeout"
            /\ q.settled[2].outcome.kind = "ok"
            /\ q.responses[1].error # <<>>
            /\ q.responses[2].content # <<>> /\ q.responses[2].error = <<>>

\* the requested backends that need a secret and have neither a server-held nor
\* a non-blank caller-supplied one
Unresolved(q) ==
    {p \in {q.ids[i] : i \in 1..Len(q.ids)} :
        p \in {"openai", "anthropic"} /\ serverKeys[p] = "" /\ q.apiKeys[p] \in {"", " "}}

\* C6: when a requested backend that needs a secret has none, the request fails
\* with 400, the body names exactly the backends whose secret is missing, and no
\* backend is called.
C6_MissingKeysFailFast ==
    \A r \in Slots :
        LET q == reqs[r]
        IN  q.validated /\ Unresolved(q) # {} =>
              /\ q.pc = "done" /\ q.status = 400 /\ q.reason = "keys"
              /\ {q.missingKeys[i] : i \in 1..Len(q.missingKeys)} = Unresolved(q)
              /\ Len(q.missingKeys) = Cardinality(Unresolved(q))
              /\ q.calls = <<>>

C6_Witness ==
    \E r \in Slots :
        /\ reqs[r].pc = "done" /\ reqs[r].status = 400
        /\ reqs[r].ids = <<"openai", "anthropic">>
        /\ reqs[r].apiKeys["openai"] = "ck-o"
        /\ reqs[r].missingKeys = <<"anthropic">>
        /\ reqs[r].calls = <<>>


\* the request's Origin, or failing that its Referer, is an allowed origin
OriginAllowed(q) ==
    IF q.origin # "" THEN q.origin \in AllowedOrigins
    ELSE q.referer # "" /\ q.referer \in AllowedOrigins

\* C7: a backend's generate is invoked for a request only if the request passed
\* every admission control (IP filter, CSRF token, origin, rate limiter, prompt,
\* content-safety and backend-id validation); a request answered with an error
\* status has called no backend.
C7_CallsOnlyWhenAdmitted ==
    \A r \in Slots :
        LET q == reqs[r]
        IN  /\ q.calls # <<>> =>
                 /\ q.mwAllowed /\ ~q.mwBlocked /\ ~q.mwListed
                 /\ getCsrfTokenFromRequest(q.header, q.cookie) # <<>>
                 /\ verifySignedToken(getCsrfTokenFromRequest(q.header, q.cookie),
                                      csrfSecret)
                 /\ OriginAllowed(q)
                 /\ q.rlAllowed
                 /\ validatePrompt(q.rawPrompt).ok
                 /\ ~detectMaliciousPatterns(validatePrompt(q.rawPrompt).value)
                 /\ validateProviderIds(q.rawIds).ok
            /\ q.pc = "done" /\ q.status # 200 => q.calls = <<>>

\* a request turned away by the rate limiter, having passed the IP filter, the
\* CSRF check and the origin check
C7_Witness ==
    \E r \in Slots :
        /\ reqs[r].pc = "done" /\ reqs[r].status = 429
        /\ reqs[r].mwAllowed /\ reqs[r].header = GoodToken /\ ~reqs[r].rlAllowed
        /\ reqs[r].calls = <<>>

\* the section of the moderator prompt that stands for backend p whose call
\* ended with outcome o
SectionFor(p, o) ==
    IF o.kind = "ok"
    THEN [name |-> providerName(p), label |-> "", text |-> sanitizeLlmResponse(o.raw)]
    ELSE [name |-> providerName(p), label |-> "Error: ", text |-> sanitizeError(o.err)]

\* the moderator is requested, known, and has a key
ModeratorCallable(q) ==
    /\ q.mod.enabled /\ q.mod.model # "" /\ q.mod.providerId \in Registry
    /\ \/ serverKeys[q.mod.providerId] # ""
       \/ q.apiKeys[q.mod.providerId] \notin {"", " "}
       \/ q.mod.providerId = "ollama"

\* C8: when synthesis is requested over the backend results, failed ones
\* included, the moderator call is made and its one prompt holds the user's
\* validated prompt and, for every backend result in order, the provider's name
\* followed by the content or by the recorded error text; none is left out.
C8_ModeratorPromptComplete ==
    \A r \in Slots :
        LET q == reqs[r]
            modCalls == SelectSeq(q.calls, LAMBDA c : c.kind = "moderator")
        IN  /\ Len(modCalls) <= 1
            /\ q.pc \in {"moderating", "done"} /\ q.status \in {0, 200}
               /\ q.calls # <<>> /\ ModeratorCallable(q) => Len(modCalls) = 1
            /\ \A i \in 1..Len(modCalls) :
                  /\ modCalls[i].modPrompt.request = q.prompt
                  /\ modCalls[i].modPrompt.sections =
                        [j \in 1..Len(q.ids) |-> SectionFor(q.ids[j], q.settled[j].outcome)]

C8_Witness ==
    \E r \in Slots :
        LET q == reqs[r]
        IN  /\ q.pc = "done" /\ q.status = 200 /\ Len(q.ids) = 2
            /\ q.settled[1].outcome.kind = "ok"
            /\ q.settled[2].outcome.kind = "throw"
            /\ \E i \in 1..Len(q.calls) :
                  /\ q.calls[i].kind = "moderator"
                  /\ Len(q.calls[i].modPrompt.sections) = 2
                  /\ q.calls[i].modPrompt.sections[2].label = "Error: "
            /\ q.responses[3].providerId = "moderator"


(* ======================= csrf.ts: the two request checks ================ *)

\* new URL(origin): the text of the origin, its hostname, and the hostname's
\* dot-separated parts as parseInt reads them (-1 for NaN)
Url(text, hostname, parts) == [text |-> text, hostname |-> hostname, parts |-> parts]

NoUrl == Url("", "", <<>>)

GuardUrls ==
    {NoUrl,
     Url("http://localhost:3000", "localhost", <<-1>>),
     Url("http://localhost:8080", "localhost", <<-1>>),
     Url("http://127.0.0.1:3000", "127.0.0.1", <<127, 0, 0, 1>>),
     Url("http://[::1]:3000", "::1", <<-1>>),
     Url("http://192.168.1.5:3000", "192.168.1.5", <<192, 168, 1, 5>>),
     Url("http://10.0.0.7:3000", "10.0.0.7", <<10, 0, 0, 7>>),
     Url("http://172.16.0.1:3000", "172.16.0.1", <<172, 16, 0, 1>>),
     Url("http://172.32.0.1:3000", "172.32.0.1", <<172, 32, 0, 1>>),
     Url("http://evil.example", "evil.example", <<-1, -1>>)}

\* the Referer headers tried: absent, allow-listed, private network, foreign
GuardReferers ==
    {u \in GuardUrls : u.hostname \in {"", "192.168.1.5", "evil.example"}
                       \/ u.text = "http://localhost:3000"}

GuardMethods == {"GET", "HEAD", "OPTIONS", "POST", "DELETE"}

\* isValidOctet
isValidOctet(num) == num >= 0 /\ num <= 255

\* isValidIPv4
isValidIPv4(parts) == Len(parts) = 4 /\ \A i \in 1..Len(parts) : isValidOctet(parts[i])

\* isValidLocalNetworkIP: the RFC 1918 ranges
isValidLocalNetworkIP(parts) ==
    IF ~isValidIPv4(parts) THEN FALSE
    ELSE IF parts[1] = 192 /\ parts[2] = 168 THEN TRUE
    ELSE IF parts[1] = 10 THEN TRUE
    ELSE IF parts[1] = 172 /\ parts[2] >= 16 /\ parts[2] <= 31 THEN TRUE
    ELSE FALSE

\* the local-network test the middleware applies to an Origin before it sets the
\* CORS headers: loopback names and addresses, or a private-network address
isLocalNetworkOrigin(url) ==
    \/ url.hostname \in {"localhost", "127.0.0.1", "::1"}
    \/ isValidLocalNetworkIP(url.parts)

GuardInit ==
    /\ gReq \in [method : GuardMethods, header : HeaderTokens, cookie : HeaderTokens,
                 origin : GuardUrls, referer : GuardReferers]
    /\ gOut = NoGuardOut

\* validateCsrfToken(request)
GuardCsrf ==
    /\ ~gOut.csrfDone
    /\ gOut' = [gOut EXCEPT !.csrfDone = TRUE,
                            !.csrf = validateCsrfToken(gReq.method, gReq.header,
                                                       gReq.cookie, csrfSecret)]
    /\ UNCHANGED <<gReq, restGuard>>

\* validateOrigin(request, config.security.allowedOrigins)
GuardOrigin ==
    /\ ~gOut.originDone
    /\ gOut' = [gOut EXCEPT !.originDone = TRUE,
                            !.origin = validateOrigin(gReq.origin.text, gReq.referer.text,
                                                      AllowedOrigins)]
    /\ UNCHANGED <<gReq, restGuard>>

InitGuard ==
    /\ now = 0 /\ RLIdle /\ SanIdle /\ CsrfIdle /\ TokIdle /\ GwIdle
    /\ ipRet = NoIpRet /\ auditEnabled = TRUE /\ recorded = <<>>
    /\ GuardInit

NextGuard == GuardCsrf \/ GuardOrigin

SpecGuard == InitGuard /\ [][NextGuard]_vars

\* the origin validateOrigin judges: the Origin header, else the Referer's origin
EffectiveOrigin == IF gReq.origin.text # "" THEN gReq.origin ELSE gReq.referer

\* C13: validateOrigin accepts exactly the requests whose origin (Origin header,
\* else Referer) is allow-listed or has a loopback or RFC 1918 private-network host.
C13_OriginAcceptsLocalNetwork ==
    gOut.originDone =>
        (gOut.origin <=> \/ EffectiveOrigin.text \in AllowedOrigins
                         \/ isLocalNetworkOrigin(EffectiveOrigin))

\* the part of C13 the code does implement: allow-listed origins, and only they, pass
C13_AllowListOnly ==
    gOut.originDone => (gOut.origin <=> EffectiveOrigin.text \in AllowedOrigins)

\* C14: a state-changing request passes validateCsrfToken only if its header holds a
\* validly signed token (a cookie token does not count); GET, HEAD and OPTIONS
\* pass without any token.
C14_HeaderTokenRequired ==
    gOut.csrfDone =>
        IF gReq.method \in {"GET", "HEAD", "OPTIONS"} THEN gOut.csrf
        ELSE gOut.csrf => gReq.header # <<>> /\ verifySignedToken(gReq.header, csrfSecret)

\* the part of C14 the code does implement: the header token, or in its absence
\* the cookie token, must be validly signed
C14_HeaderOrCookieToken ==
    gOut.csrfDone /\ gReq.method \notin {"GET", "HEAD", "OPTIONS"} =>
        (gOut.csrf <=> LET t == IF gReq.header # <<>> THEN gReq.header ELSE gReq.cookie
                       IN  t # <<>> /\ verifySignedToken(t, csrfSecret))


(* ======================= ip-filter.ts: the filter on its own ============ *)

MaxIpTime == 3

\* the gateway state the filter does not touch
restIp ==
    <<rlVars, sanVars, csrfVars, tokVars, auditLog, serverKeys, reqs, arrivals, obsBlock,
      vioCalls, guardVars, auditEnabled, recorded>>

\* IPFilter constructor: the lists and the switch come from the environment
IpInit ==
    /\ whitelist \in SUBSET Identifiers
    /\ blacklist \in SUBSET Identifiers
    /\ enableDynamicBlocking \in BOOLEAN
    /\ violations = [k \in Identifiers |-> 0]
    /\ dynamicBlocks = [k \in Identifiers |-> NoBlock]
    /\ ipRet = NoIpRet

\* isAllowed(ip); the observer fields say what the three tables held at the call
IpIsAllowed(ip) ==
    /\ ipRet' = [ip |-> ip,
                 allowed |-> isAllowedResult(ip, whitelist, blacklist, enableDynamicBlocking,
                                             dynamicBlocks, now).allowed,
                 reason |-> isAllowedResult(ip, whitelist, blacklist, enableDynamicBlocking,
                                            dynamicBlocks, now).reason,
                 listed |-> (whitelist = {} \/ ip \in whitelist),
                 banned |-> (ip \in blacklist),
                 blocked |-> (dynamicBlocks[ip].has /\ now < dynamicBlocks[ip].until)]
    /\ dynamicBlocks' = isAllowedBlocks(ip, whitelist, blacklist, enableDynamicBlocking,
                                        dynamicBlocks, now)
    /\ UNCHANGED <<now, whitelist, blacklist, enableDynamicBlocking, violations, restIp>>

\* recordViolation(ip, reason)
IpRecordViolation(ip) ==
    /\ violations' = [violations EXCEPT ![ip] = recordViolationCount(@, enableDynamicBlocking)]
    /\ dynamicBlocks' = recordViolationBlocks(ip, violations[ip], enableDynamicBlocking,
                                              dynamicBlocks, now)
    /\ UNCHANGED <<now, whitelist, blacklist, enableDynamicBlocking, ipRet, restIp>>

\* blockIP(ip) with the default duration
IpBlock(ip) ==
    /\ dynamicBlocks' = [dynamicBlocks EXCEPT
                            ![ip] = [has |-> TRUE, until |-> now + BlockDurationMs]]
    /\ UNCHANGED <<now, whitelist, blacklist, enableDynamicBlocking, violations, ipRet, restIp>>

\* unblockIP(ip)
IpUnblock(ip) ==
    /\ dynamicBlocks[ip].has \/ violations[ip] # 0
    /\ dynamicBlocks' = [dynamicBlocks EXCEPT ![ip] = NoBlock]
    /\ violations' = [violations EXCEPT ![ip] = 0]
    /\ UNCHANGED <<now, whitelist, blacklist, enableDynamicBlocking, ipRet, restIp>>

\* the periodic cleanup()
IpCleanup ==
    /\ dynamicBlocks' = cleanupBlocks(dynamicBlocks, now)
    /\ violations' = cleanupViolations(violations, dynamicBlocks, now)
    /\ dynamicBlocks' # dynamicBlocks
    /\ UNCHANGED <<now, whitelist, blacklist, enableDynamicBlocking, ipRet, restIp>>

IpTick ==
    /\ now < MaxIpTime
    /\ now' = now + 1
    /\ UNCHANGED <<ipVars, ipRet, restIp>>

InitIp ==
    /\ now = 0 /\ RLIdle /\ SanIdle /\ CsrfIdle /\ TokIdle
    /\ auditLog = <<>> /\ serverKeys = <<>> /\ reqs = <<>> /\ arrivals = 0 /\ obsBlock = <<>>
    /\ vioCalls = <<>>
    /\ gReq = NoGuardReq /\ gOut = NoGuardOut /\ auditEnabled = TRUE /\ recorded = <<>>
    /\ IpInit

NextIp ==
    \/ \E ip \in Identifiers : IpIsAllowed(ip)
    \/ \E ip \in Identifiers : IpRecordViolation(ip)
    \/ \E ip \in Identifiers : IpBlock(ip)
    \/ \E ip \in Identifiers : IpUnblock(ip)
    \/ IpCleanup
    \/ IpTick

SpecIp == InitIp /\ [][NextIp]_vars

\* C15: isAllowed rejects an identifier missing from a non-empty whitelist, rejects
\* a blacklisted one even if whitelisted, rejects one with an unexpired dynamic block
\* even if whitelisted, and allows exactly when none of the three rejects.
C15_AllowedIffNoneRejects ==
    ipRet.ip # "" =>
        /\ ~ipRet.listed => ~ipRet.allowed /\ ipRet.reason = "IP not in whitelist"
        /\ ipRet.banned => ~ipRet.allowed
        /\ ipRet.blocked => ~ipRet.allowed
        /\ ipRet.allowed <=> ipRet.listed /\ ~ipRet.banned /\ ~ipRet.blocked

\* the part of C15 that holds of the code: the same, as long as dynamic blocking
\* is switched on
C15_AllowedIffNoneRejectsWhenEnabled == enableDynamicBlocking => C15_AllowedIffNoneRejects


(* ======================= AuditLogger on its own ======================== *)

MaxRecorded == 4
MaxAuditTime == 2

AuditEventTypes == {"csrf_failure", "provider_error"}

\* the entry log() stores: the caller's fields and the time of the call
logEntry(entry, t) ==
    [eventType |-> entry.eventType, ipAddress |-> entry.ipAddress, timestamp |-> t]

\* AuditLogger.log(entry): nothing when logging is disabled
AuditLogger_log(enabled, logs, entry, t) ==
    IF ~enabled THEN logs ELSE auditLog_log(logs, logEntry(entry, t))

restAudit ==
    <<rlVars, sanVars, csrfVars, tokVars, ipVars, serverKeys, reqs, arrivals, obsBlock,
      vioCalls, guardVars, ipRet>>

\* AuditLogger constructor
AuditInit == auditEnabled \in BOOLEAN /\ auditLog = <<>> /\ recorded = <<>>

\* auditLogger.log(entry), as the helper functions call it
AuditLog ==
    /\ Len(recorded) < MaxRecorded
    /\ \E type \in AuditEventTypes, ip \in Identifiers :
          /\ auditLog' = AuditLogger_log(auditEnabled, auditLog, Event(type, ip), now)
          /\ recorded' = IF auditEnabled
                         THEN Append(recorded, logEntry(Event(type, ip), now))
                         ELSE recorded
    /\ UNCHANGED <<now, auditEnabled, restAudit>>

AuditTick ==
    /\ now < MaxAuditTime
    /\ now' = now + 1
    /\ UNCHANGED <<auditLog, auditEnabled, recorded, restAudit>>

InitAudit ==
    /\ now = 0 /\ RLIdle /\ SanIdle /\ CsrfIdle /\ TokIdle
    /\ whitelist = {} /\ blacklist = {} /\ enableDynamicBlocking = TRUE
    /\ violations = <<>> /\ dynamicBlocks = <<>>
    /\ serverKeys = <<>> /\ reqs = <<>> /\ arrivals = 0 /\ obsBlock = <<>>
    /\ vioCalls = <<>>
    /\ gReq = NoGuardReq /\ gOut = NoGuardOut /\ ipRet = NoIpRet
    /\ AuditInit

NextAudit == AuditLog \/ AuditTick

SpecAudit == InitAudit /\ [][NextAudit]_vars

FailedCalls(q) ==
    Cardinality({i \in 1..Len(q.settled) :
                    q.settled[i].done /\ q.settled[i].outcome.kind \notin {"ok", "none"}})
    + (IF q.modOutcome.kind \notin {"ok", "none"} THEN 1 ELSE 0)

\* C17: every request answered with a rejection has caused at least one audit
\* event, whatever the reason (IP filter, CSRF, origin, rate limit, body size, JSON,
\* prompt, backend ids, missing credentials), and every failed backend or
\* synthesis call has caused a provider-error event.
C17_EveryRejectionLogged ==
    \A r \in Slots :
        LET q == reqs[r]
        IN  /\ q.pc = "done" /\ q.status # 200 => q.logged >= 1
            /\ FailedCalls(q) <= q.errLogged

\* the part of C17 that holds of the code: IP, CSRF, origin, rate-limit and prompt
\* rejections and failed calls are logged
C17_GuardRejectionsLogged ==
    \A r \in Slots :
        LET q == reqs[r]
        IN  /\ q.pc = "done" /\ q.reason \in {"ip", "csrf", "origin", "rate", "prompt", "malicious"}
                 => q.logged >= 1
            /\ FailedCalls(q) <= q.errLogged

\* the reasons for which the handler turns a request away as invalid
ValidationReasons == {"size", "json", "prompt", "malicious", "providers", "keys"}

\* C18: a request turned away for a validation reason (body size, JSON, prompt,
\* malicious content, backend ids, missing credentials) is answered with 400, and
\* 500 is never the answer to one of them.
C18_ValidationAnswers400 ==
    \A r \in Slots :
        LET q == reqs[r]
        IN  q.pc = "done" =>
               /\ q.reason \in ValidationReasons => q.status = 400
               /\ q.status = 500 => q.reason \notin ValidationReasons

\* the part of C18 that holds of the code: every validation rejection but the
\* one for the body size is answered with 400
C18_ParsedBodyAnswers400 ==
    \A r \in Slots :
        LET q == reqs[r]
        IN  q.pc = "done" /\ q.reason \in ValidationReasons \ {"size"} => q.status = 400


\* C19: the key handed to every generateResponse call, of a backend or of the
\* moderator, is the server-held key when one is configured, else the client's key
\* when that is not blank, else the empty key, and the empty key only for a
\* provider that requires none.
C19_KeyPreference ==
    \A r \in Slots :
        \A i \in 1..Len(reqs[r].calls) :
            LET c == reqs[r].calls[i]
                p == c.providerId
                client == reqs[r].apiKeys[p]
            IN  /\ serverKeys[p] # "" => c.apiKey = serverKeys[p]
                /\ serverKeys[p] = "" /\ NonBlank(client) => c.apiKey = client
                /\ serverKeys[p] = "" /\ ~NonBlank(client) =>
                      c.apiKey = "" /\ ~requiresApiKey(p)

\* a backend was called with the server-held key although the client sent its own
C19_Witness ==
    \E r \in Slots :
        \E i \in 1..Len(reqs[r].calls) :
            LET c == reqs[r].calls[i]
            IN  /\ serverKeys[c.providerId] # ""
                /\ NonBlank(reqs[r].apiKeys[c.providerId])
                /\ reqs[r].apiKeys[c.providerId] # serverKeys[c.providerId]
                /\ c.apiKey = serverKeys[c.providerId]


\* the results of a response that carry the moderator tag
ModeratorResults(q) == {i \in 1..Len(q.responses) : q.responses[i].providerId = "moderator"}

\* the request names a synthesis backend / names a synthesis backend and a model
NamesModerator(q) == q.mod.enabled /\ q.mod.providerId # ""
RequestsModerator(q) == NamesModerator(q) /\ q.mod.model # ""

\* the shape of a 200 response around its moderator result, given when one is due
SynthesisShape(q, due) ==
    /\ ModeratorResults(q) # {} <=> due /\ Len(q.ids) >= 1
    /\ Cardinality(ModeratorResults(q)) <= 1
    /\ SubSeq(q.responses, 1, Len(q.ids)) = joinResponses(q.settled)
    /\ ModeratorResults(q) \subseteq {Len(q.ids) + 1}
    /\ Len(q.responses) = Len(q.ids) + Cardinality(ModeratorResults(q))

\* C20 as claimed: a 200 response holds a moderator result exactly when the request
\* names a synthesis backend and the dispatch produced a backend result; then there
\* is one, after all backend results.
C20_SynthesisWheneverNamed ==
    \A r \in Slots :
        reqs[r].pc = "done" /\ reqs[r].status = 200 =>
            SynthesisShape(reqs[r], NamesModerator(reqs[r]))

\* C20: a 200 response holds a moderator result exactly when the request enables
\* synthesis naming both a synthesis backend and a model, and the dispatch produced
\* a backend result; then there is exactly one, content or error, after all
\* backend results.
C20_SynthesisWhenRequested ==
    \A r \in Slots :
        reqs[r].pc = "done" /\ reqs[r].status = 200 =>
            SynthesisShape(reqs[r], RequestsModerator(reqs[r]))

\* a response whose moderator result is an error, after a backend result
C20_Witness ==
    \E r \in Slots :
        /\ reqs[r].pc = "done" /\ reqs[r].status = 200
        /\ RequestsModerator(reqs[r])
        /\ Len(reqs[r].responses) = Len(reqs[r].ids) + 1
        /\ reqs[r].responses[Len(reqs[r].responses)].providerId = "moderator"
        /\ reqs[r].responses[Len(reqs[r].responses)].error # <<>>

(* ======================= the synthesis pass and the join =============== *)

\* the moderator of a finished dispatch was requested and could not be called
\* (its id is not in the registry, or it needs a key and has none)
SynthesisNotCallable(q) ==
    /\ RequestsModerator(q)
    /\ \/ q.mod.providerId \notin Registry
       \/ ~resolveKey(q.mod.providerId, q.apiKeys, serverKeys).found

\* the synthesis pass of a finished dispatch failed
SynthesisFailed(q) ==
    \/ SynthesisNotCallable(q)
    \/ q.modOutcome.kind \in {"throw", "timeout"}

\* C21: a failed synthesis pass (the moderator call throws or times out, the
\* moderator id is not in the registry, or its key is missing) is not fatal: the
\* response has status 200, holds every backend result as it stood at the join,
\* and ends with one more result, tagged "moderator", with an error and no content.
C21_SynthesisFailureNotFatal ==
    \A r \in Slots :
        LET q == reqs[r]
        IN  q.pc = "done" /\ q.calls # <<>> /\ SynthesisFailed(q) =>
              /\ q.status = 200
              /\ Len(q.responses) = Len(q.ids) + 1
              /\ SubSeq(q.responses, 1, Len(q.ids)) = joinResponses(q.settled)
              /\ q.responses[Len(q.responses)].providerId = "moderator"
              /\ q.responses[Len(q.responses)].content = <<>>
              /\ q.responses[Len(q.responses)].error # <<>>

\* a moderator call that timed out after a dispatch with one good result
C21_Witness ==
    \E r \in Slots :
        LET q == reqs[r]
        IN  /\ q.pc = "done" /\ q.status = 200
            /\ q.modOutcome.kind = "timeout"
            /\ \E i \in 1..Len(q.ids) : q.responses[i].content # <<>>
            /\ q.responses[Len(q.responses)].error = sanitizeError(TimeoutErr)

\* a dispatch whose moderator id is not in the registry although a key came with it
C21_WitnessNotFound ==
    \E r \in Slots :
        LET q == reqs[r]
        IN  /\ q.pc = "done" /\ q.status = 200 /\ q.calls # <<>>
            /\ q.mod.providerId = "bogus" /\ q.apiKeys["bogus"] # ""
            /\ q.responses[Len(q.responses)].error = <<"Moderator provider not found">>

\* the generateResponse calls of the fan-out that slot q has started
BackendCalls(q) == SelectSeq(q.calls, LAMBDA c : c.kind = "backend")

\* the handler of slot q has started the moderator call
ModeratorStarted(q) == \E i \in 1..Len(q.calls) : q.calls[i].kind = "moderator"

\* C22: within one dispatch every backend call has been started, one per id and in
\* the order of the ids, when the handler awaits the join and before any call
\* settles; the 200 response is sent only from a state in which every call has
\* settled; and the moderator call is started only from such a state.
C22_StartAllJoinAll ==
    [][\A r \in Slots :
          LET q  == reqs[r]
              q2 == reqs'[r]
          IN  /\ q2.pc = "fanout" =>
                    /\ Len(BackendCalls(q2)) = Len(q2.ids)
                    /\ \A i \in 1..Len(q2.ids) : BackendCalls(q2)[i].providerId = q2.ids[i]
              /\ q.pc = "fanout" /\ q2.settled # q.settled =>
                    /\ BackendCalls(q) = BackendCalls(q2)
                    /\ Len(BackendCalls(q)) = Len(q.ids)
              /\ q.pc # "done" /\ q2.pc = "done" /\ q2.status = 200 =>
                    /\ q.settled # <<>>
                    /\ \A i \in 1..Len(q.settled) : q.settled[i].done
                    /\ q2.settled = q.settled
              /\ ~ModeratorStarted(q) /\ ModeratorStarted(q2) =>
                    /\ q.pc = "fanout"
                    /\ \A i \in 1..Len(q.settled) : q.settled[i].done
                    /\ q2.settled = q.settled
      ]_vars

\* the moderator call is in flight after two backend calls, the first of which
\* threw and the second of which returned
C22_Witness ==
    \E r \in Slots :
        LET q == reqs[r]
        IN  /\ q.pc = "moderating" /\ Len(q.ids) = 2 /\ Len(BackendCalls(q)) = 2
            /\ q.settled[1].outcome.kind = "throw"
            /\ q.settled[2].outcome.kind = "ok"
            /\ ModeratorStarted(q)

(* ======================= termination of a dispatch ===================== *)

\* a call of slot r has passed its timeout race and is reading a response body
ReadingBody(r) ==
    \/ reqs[r].pc = "fanout" /\ \E i \in 1..Len(reqs[r].settled) : reqs[r].settled[i].reading
    \/ reqs[r].pc = "moderating" /\ reqs[r].modReading

Dispatching(r) == reqs[r].pc \in {"fanout", "moderating"}

\* C23: every dispatch eventually returns a response, whatever the backends do:
\* a call that outlasts its timeout settles as a timeout failure, so the join and
\* the moderator call after it terminate.
C23_EveryDispatchReturns ==
    \A r \in Slots : Dispatching(r) ~> (reqs[r].pc = "done")

\* what holds of the handler: a dispatch returns unless one of its calls stays in
\* the reading of a response body, which no timeout covers
C23_ReturnsUnlessReadingBody ==
    \A r \in Slots : Dispatching(r) ~> (reqs[r].pc = "done" \/ ReadingBody(r))

\* a dispatch answered although a backend call and the moderator call both ran
\* into their timeouts
C23_TimeoutsSettle ==
    \E r \in Slots :
        LET q == reqs[r]
        IN  /\ q.pc = "done" /\ q.status = 200 /\ q.modOutcome.kind = "timeout"
            /\ \E i \in 1..Len(q.ids) : q.settled[i].outcome.kind = "timeout"

(* ======================= the shape of a result ========================= *)

\* C24: every result of a 200 response has exactly one of content and error: a
\* result with an error has no content and a result without an error has
\* content that is not empty, also when sanitizeLlmResponse leaves nothing of
\* the backend's output.
C24_ExactlyOneOfContentError ==
    \A r \in Slots :
        LET q == reqs[r]
        IN  q.pc = "done" /\ q.status = 200 =>
              \A i \in 1..Len(q.responses) :
                 /\ q.responses[i].error # <<>> => q.responses[i].content = <<>>
                 /\ q.responses[i].error = <<>> => q.responses[i].content # <<>>

\* what holds of the handler: a result never has both, and a result with neither
\* is one whose backend returned text that sanitizeLlmResponse emptied
C24_NeverBoth ==
    \A r \in Slots :
        LET q == reqs[r]
        IN  q.pc = "done" /\ q.status = 200 =>
              /\ \A i \in 1..Len(q.responses) :
                    q.responses[i].error # <<>> => q.responses[i].content = <<>>
              /\ \A i \in 1..Len(q.ids) :
                    q.responses[i].error = <<>> /\ q.responses[i].content = <<>> =>
                       /\ q.settled[i].outcome.kind = "ok"
                       /\ q.settled[i].outcome.raw # <<>>
                       /\ sanitizeLlmResponse(q.settled[i].outcome.raw) = <<>>

\* a backend answered "javascript:" and its result has neither content nor error
C24_EmptyResult ==
    \E r \in Slots :
        LET q == reqs[r]
        IN  /\ q.pc = "done" /\ q.status = 200
            /\ \E i \in 1..Len(q.ids) :
                  /\ q.settled[i].outcome.raw = T_javascript
                  /\ q.responses[i].content = <<>> /\ q.responses[i].error = <<>>

(* ======================= one call and one result per backend =========== *)

\* the place at which x first stands in seq
FirstIndexOf(seq, x) ==
    CHOOSE i \in 1..Len(seq) : seq[i] = x /\ \A j \in 1..(i - 1) : seq[j] # x

\* the number of places of seq at which an element with Test stands
CountOf(seq, Test(_)) == Cardinality({i \in 1..Len(seq) : Test(seq[i])})

\* C25: in a dispatch that reaches the fan-out the dispatched ids are the distinct
\* ids of the request in the order of their first appearance, each of them is in
\* the registry, each has exactly one generateResponse call at every later moment
\* (also after the call has failed), and the 200 response holds exactly one
\* result for each, in the same order.
C25_OneCallOneResultPerId ==
    \A r \in Slots :
        LET q == reqs[r]
            raw == q.rawIds.items
        IN  q.pc \in {"fanout", "moderating", "done"} /\ q.calls # <<>> =>
              /\ {q.ids[i] : i \in 1..Len(q.ids)} = {raw[i] : i \in 1..Len(raw)}
              /\ \A i, j \in 1..Len(q.ids) :
                    i < j => FirstIndexOf(raw, q.ids[i]) < FirstIndexOf(raw, q.ids[j])
              /\ \A i \in 1..Len(q.ids) :
                    /\ q.ids[i] \in Registry
                    /\ CountOf(q.calls, LAMBDA c : c.kind = "backend"
                                                   /\ c.providerId = q.ids[i]) = 1
                    /\ BackendCalls(q)[i].providerId = q.ids[i]
              /\ Len(BackendCalls(q)) = Len(q.ids)
              /\ q.pc = "done" =>
                    \A i \in 1..Len(q.ids) :
                       /\ q.responses[i].providerId = q.ids[i]
                       /\ CountOf(q.responses, LAMBDA x : x.providerId = q.ids[i]) = 1

\* a request that names the same backend twice: one call, which failed, and one
\* result
C25_Witness ==
    \E r \in Slots :
        LET q == reqs[r]
        IN  /\ q.pc = "done" /\ q.status = 200
            /\ q.rawIds.items = <<"ollama", "ollama">>
            /\ Len(BackendCalls(q)) = 1
            /\ q.settled[1].outcome.kind = "throw"
            /\ Len(q.responses) = 1 /\ q.responses[1].error # <<>>

(* ======================= the order of the guards ======================= *)

\* the order in which middleware and POST evaluate the guards, and the order
\* the control-flow sentence gives
GuardOrder == <<"ip", "csrforigin", "rate", "validation">>
ClaimedGuardOrder == <<"csrforigin", "ip", "rate", "validation">>

\* the guard that sends a response with the given reason
GuardOf(reason) ==
    CASE reason = "ip" -> "ip"
      [] reason \in {"csrf", "origin"} -> "csrforigin"
      [] reason = "rate" -> "rate"
      [] reason \in {"size", "json", "prompt", "malicious", "providers"} -> "validation"
      [] OTHER -> "none"

\* the request of slot record q does not pass guard g; what a guard never read
\* counts as absent
FailsGuard(q, g) ==
    CASE g = "ip" -> ~q.mwAllowed
      [] g = "csrforigin" ->
            \/ ~validateCsrfToken("POST", q.header, q.cookie, csrfSecret)
            \/ ~OriginAllowed(q)
      [] g = "rate" -> ~q.rlAllowed
      [] g = "validation" ->
            \/ q.reason \in {"size", "json"}
            \/ ~validatePrompt(q.rawPrompt).ok
            \/ detectMaliciousPatterns(validatePrompt(q.rawPrompt).value)
            \/ ~validateProviderIds(q.rawIds).ok

\* no part of the request that guard g reads has been read
UnreadBy(q, g) ==
    CASE g = "ip" -> FALSE
      [] g = "csrforigin" ->
            q.header = <<>> /\ q.cookie = <<>> /\ q.origin = "" /\ q.referer = ""
      [] g = "rate" -> ~q.rlAllowed
      [] g = "validation" ->
            q.rawPrompt = NoPrompt /\ q.rawIds = NoIds /\ q.reason \notin {"size", "json"}

\* the state a guard keeps
GuardState(g) ==
    CASE g = "ip" -> <<violations, dynamicBlocks>>
      [] g = "rate" -> <<store>>
      [] OTHER -> <<>>

\* the audit events that record a failure of guard g
GuardEvents(g) ==
    CASE g = "ip" -> {"suspicious_activity"}
      [] g = "csrforigin" -> {"csrf_failure", "suspicious_activity"}
      [] g = "rate" -> {"rate_limit_exceeded"}
      [] OTHER -> {"invalid_input", "suspicious_activity"}

PlaceOf(order, g) == CHOOSE i \in 1..Len(order) : order[i] = g

\* a step in which slot r answers a request with a guard's rejection respects
\* the order: every guard before the rejecting one is passed, no guard after it
\* has read the request or changes its state, and when a guard follows, the
\* rejection is recorded as one event of the rejecting guard
RejectionRespects(r, order) ==
    LET q2 == reqs'[r]
        g  == GuardOf(q2.reason)
        at == PlaceOf(order, g)
    IN  (reqs'[r] # reqs[r] \/ arrivals' # arrivals) /\ q2.pc = "done" /\ g # "none" =>
          /\ FailsGuard(q2, g)
          /\ \A i \in 1..(at - 1) : ~FailsGuard(q2, order[i])
          /\ \A i \in (at + 1)..Len(order) :
                /\ UnreadBy(q2, order[i])
                /\ GuardState(order[i])' = GuardState(order[i])
          /\ at < Len(order) =>
                /\ q2.logged = 1
                /\ \E t \in GuardEvents(g) :
                      auditLog' = auditLog_log(auditLog, Event(t, q2.ip))

\* C26 as claimed: the guards are passed in the order CSRF/Origin, IP reputation,
\* rate limiter, validation and content safety; a request is rejected by, and
\* recorded as a failure of, the earliest guard it fails, and no later guard
\* reads the request or changes its state.
C26_CsrfBeforeIpGuard ==
    [][\A r \in Slots : RejectionRespects(r, ClaimedGuardOrder)]_vars

\* C26, amended: the same with the IP reputation guard first: IP reputation,
\* CSRF/Origin, rate limiter, validation and content safety.
C26_IpGuardFirst ==
    [][\A r \in Slots : RejectionRespects(r, GuardOrder)]_vars

\* a request with a good token and a foreign origin, sent when the client's rate
\* budget is used up, is turned away by the origin check
C26_Witness ==
    \E r \in Slots :
        LET q == reqs[r]
        IN  /\ q.pc = "done" /\ q.status = 403 /\ q.reason = "origin"
            /\ q.header = GoodToken /\ q.origin = "http://evil.example"
            /\ ~checkResult(store[q.ip], now, maxRequests).allowed
            /\ q.logged = 1

(* ======================= a blocked client and the rate window ========== *)

\* the identifier is blocked: not on a non-empty whitelist, on the blacklist, or
\* holding a block that has not run out
CurrentlyBlocked(ip) ==
    \/ ListedOut(ip)
    \/ dynamicBlocks[ip].has /\ dynamicBlocks[ip].until > now

\* the slot that takes the request arriving next
ArrivalSlot == IF Free("r1") THEN "r1" ELSE "r2"

\* C27: a request that arrives from an identifier that is blocked at that moment
\* is answered 403 by the IP guard without the rate limiter being consulted: the
\* identifier's rate window and its violation count are after the rejection
\* what they were before it, and the request goes no further.
C27_BlockedLeavesWindowAlone ==
    [][arrivals' # arrivals =>
          LET q2 == reqs'[ArrivalSlot]
          IN  CurrentlyBlocked(q2.ip) =>
                /\ q2.pc = "done" /\ q2.status = 403 /\ q2.reason = "ip"
                /\ store'[q2.ip] = store[q2.ip]
                /\ violations'[q2.ip] = violations[q2.ip]
                /\ ~q2.rlAllowed /\ ~q2.vio.recorded /\ q2.calls = <<>>
      ]_vars

\* a client with an open rate window is turned away while its dynamic block lasts
C27_Witness ==
    \E r \in Slots :
        LET q == reqs[r]
        IN  /\ q.pc = "done" /\ q.status = 403 /\ q.reason = "ip"
            /\ dynamicBlocks[q.ip].has /\ dynamicBlocks[q.ip].until > now
            /\ store[q.ip].has /\ store[q.ip].count >= 1

(* ======================= interleaved handlers of one client ============ *)

\* the number of admitted calls among the check() calls of the present window
AdmittedInWindow(id) == Cardinality({k \in 1..Len(winCalls[id]) : winCalls[id][k]})

\* C28: with the handlers of several requests of one identifier interleaved at
\* their await points, no increment is lost: the calls admitted in one rate
\* window never number more than maxRequests, every check() call of the window
\* is counted in the stored entry, and the violation counter stands at the
\* number of recordViolation calls made on the record, counted modulo the reset
\* at maxViolationsBeforeBlock.
C28_NoLostUpdate ==
    \A id \in Identifiers :
        /\ AdmittedInWindow(id) <= maxRequests
        /\ store[id].has /\ now <= store[id].resetTime =>
              store[id].count = Len(winCalls[id])
        /\ violations[id] = vioCalls[id] % MaxViolationsBeforeBlock

\* two requests of one client are in their handlers at once, one of them
\* admitted by the rate limiter and one turned away by it, and the counter
\* holds the violation
C28_Witness ==
    \E r, x \in Slots :
        /\ r # x /\ reqs[r].ip = reqs[x].ip /\ reqs[r].at = reqs[x].at
        /\ reqs[r].pc = "body" /\ reqs[r].rlAllowed
        /\ reqs[x].pc = "done" /\ reqs[x].reason = "rate"
        /\ Len(winCalls[reqs[r].ip]) = 2
        /\ violations[reqs[r].ip] = 1

(* ======================= violations in the request path ================ *)

\* the rejections that record a violation, and the validation failures that do not
ViolationReasons == {"csrf", "origin", "rate", "malicious"}
PlainReasons == {"size", "json", "prompt", "providers", "keys"}

CountRange == 0..(MaxViolationsBeforeBlock - 1)

\* the step of slot r that answers a request, seen from the violation record of
\* the client
AnswerRecords(r) ==
    LET q2 == reqs'[r]
        ip == q2.ip
        v  == violations[ip]
    IN  (reqs'[r] # reqs[r] \/ arrivals' # arrivals) /\ q2.pc = "done" =>
          /\ q2.reason \in ViolationReasons =>
                /\ vioCalls'[ip] = vioCalls[ip] + 1
                /\ \A k \in Identifiers \ {ip} :
                      violations'[k] = violations[k] /\ dynamicBlocks'[k] = dynamicBlocks[k]
                /\ IF v + 1 >= MaxViolationsBeforeBlock
                   THEN /\ violations'[ip] = 0
                        /\ dynamicBlocks'[ip] = [has |-> TRUE, until |-> now + BlockDurationMs]
                   ELSE /\ violations'[ip] = v + 1
                        /\ dynamicBlocks'[ip] = dynamicBlocks[ip]
                /\ vioCalls'[ip] % MaxViolationsBeforeBlock = 0 => dynamicBlocks'[ip].has
          /\ q2.reason \in PlainReasons \cup {"ok"} =>
                /\ vioCalls' = vioCalls /\ violations' = violations
                /\ dynamicBlocks' = dynamicBlocks

MaxFurtherCalls == 2

FilterCalls == {"isAllowed", "recordViolation"}

CallRuns(S, n) == UNION {[1..m -> S] : m \in 0..n}

\* what a run of isAllowed and recordViolation calls for ip returns, starting
\* from the tables vio and blocks, all calls made at time t
RECURSIVE FilterResults(_, _, _, _, _)
FilterResults(ip, vio, blocks, calls, t) ==
    IF calls = <<>> THEN <<>>
    ELSE IF Head(calls) = "isAllowed"
         THEN <<isAllowedResult(ip, whitelist, blacklist, enableDynamicBlocking, blocks, t)>>
              \o FilterResults(ip, vio,
                               isAllowedBlocks(ip, whitelist, blacklist,
                                               enableDynamicBlocking, blocks, t),
                               Tail(calls), t)
         ELSE FilterResults(ip,
                            [vio EXCEPT ![ip] = recordViolationCount(@, enableDynamicBlocking)],
                            recordViolationBlocks(ip, vio[ip], enableDynamicBlocking, blocks, t),
                            Tail(calls), t)

\* what n check calls for id return, starting from the entry, all made at time t
RECURSIVE CheckResults(_, _, _)
CheckResults(entry, n, t) ==
    IF n = 0 THEN <<>>
    ELSE <<checkResult(entry, t, maxRequests)>> \o CheckResults(checkEntry(entry, t), n - 1, t)

ExpiredBlock(ip) == dynamicBlocks[ip].has /\ dynamicBlocks[ip].until <= now

\* the rate-window sweep at the present time changes no later result of check
RateSweepUnobservable ==
    \A id \in Identifiers : \A t \in now..MaxGwTime : \A n \in 0..MaxFurtherCalls :
        CheckResults(cleanupStore(store, now)[id], n, t) = CheckResults(store[id], n, t)

\* the expired-block sweep at the present time changes no later result of
\* isAllowed
BlockSweepUnobservable ==
    \A ip \in Identifiers : \A t \in now..MaxGwTime :
        \A calls \in CallRuns(FilterCalls, MaxFurtherCalls) :
            FilterResults(ip, cleanupViolations(violations, dynamicBlocks, now),
                          cleanupBlocks(dynamicBlocks, now), calls, t)
              = FilterResults(ip, violations, dynamicBlocks, calls, t)

\* the sweep and the lazy clearing of isAllowed leave the same violation count
SameCountEitherWay ==
    \A ip \in Identifiers :
        ExpiredBlock(ip) =>
            cleanupViolations(violations, dynamicBlocks, now)[ip] = violations[ip]

\* C30: the periodic sweeps are unobservable: a run of check, isAllowed and
\* recordViolation calls returns the same results whether or not a rate-window
\* sweep or an expired-block sweep ran before it, and the expired-block sweep
\* leaves an identifier with the same violation count as the lazy clearing of
\* isAllowed does.
C30_SweepsUnobservable ==
    RateSweepUnobservable /\ BlockSweepUnobservable /\ SameCountEitherWay

\* C30, the part that holds: the rate-window sweep is unobservable
C30_RateSweepUnobservable == RateSweepUnobservable

\* C30, the state that tells the two apart: an expired block not yet removed on an
\* identifier with a violation recorded since the block was set
C30_ExpiredBlockWithViolations ==
    \E ip \in Identifiers : ExpiredBlock(ip) /\ violations[ip] > 0

====
